---- MODULE Spec2Model ----
(***************************************************************************)
(* The risk-warning lifecycle engine of Grave Rato: the WarningSign        *)
(* document (schema and methods), the GraphQL warning mutations, and       *)
(* WarningService with its monitoring timers.                              *)
(*                                                                         *)
(* Documents are JavaScript objects: a record whose domain is the set of   *)
(* keys that are present.  A key that is absent reads as undefined.        *)
(* Every await of the source is a step boundary: an asynchronous call that *)
(* reads shared state, awaits, and writes is a process in procs whose pc   *)
(* names the call it is waiting for.                                       *)
(***************************************************************************)
EXTENDS Integers, Sequences, FiniteSets, Bags, TLC

\* ------------------------------------------------------------------ bounds
MaxWarnings == 2
MaxDocs == 1
MaxInFlight == 1
MaxOverlap == 2
MaxMessages == 1
MaxSubmissions == 1
MaxFlaggers == 6
MaxReports == 6
MaxNotifications == 2
MaxRecipients == 2
MaxKeywords == 12
MaxTombstones == 7

\* ------------------------------------------------------- program constants
MaxRiskScore == 100
CriticalMin == 80
HighMin == 60
MediumMin == 40
FlagThreshold == 5
ReportThreshold == 5
VerifiedBonus == 30
RejectedPenalty == 50
BaseCredibility == 50
LongMessage == 100
VeryLongMessage == 200
LengthBonus == 10
KeywordPenalty == 5
UrlBonus == 15
AddressBonus == 20
AddressLength == 42
SimilarLimit == 5
DigestLength == 64

WarningIds == 1..MaxWarnings
MessageIds == 1..MaxMessages
SubmissionIds == 1..MaxSubmissions
RiskLevels == {"Low", "Medium", "High", "Critical"}
Categories == {"onChainData", "marketData", "socialData"}

EmptyRec == [k \in {} |-> 0]
Null == [status |-> "null"]

\* Math.min, Math.max
Min(a, b) == IF a < b THEN a ELSE b
Max(a, b) == IF a > b THEN a ELSE b

\* { ...a, ...b }
Spread(a, b) ==
  [k \in (DOMAIN a) \cup (DOMAIN b) |-> IF k \in DOMAIN b THEN b[k] ELSE a[k]]

\* The nested path evidence of the schema: assigning an object to it replaces
\* the three sub-records; one the object does not name is left empty.
EvidencePath(e) ==
  [c \in Categories |-> IF c \in DOMAIN e THEN e[c] ELSE EmptyRec]

\* The if-chain with strict comparisons: a boundary score falls one tier low.
RiskLevelGt(totalRiskScore) ==
  IF totalRiskScore > CriticalMin THEN "Critical"
  ELSE IF totalRiskScore > HighMin THEN "High"
  ELSE IF totalRiskScore > MediumMin THEN "Medium"
  ELSE "Low"

\* The if-chain of updateRiskLevel.
RiskLevelOf(totalRiskScore) ==
  IF totalRiskScore >= CriticalMin THEN "Critical"
  ELSE IF totalRiskScore >= HighMin THEN "High"
  ELSE IF totalRiskScore >= MediumMin THEN "Medium"
  ELSE "Low"

\* ------------------------------------------------------------------ callers
NoUser == [id |-> "", role |-> "none"]
Callers == { NoUser,
             [id |-> "user1", role |-> "user"],
             [id |-> "mod1", role |-> "moderator"],
             [id |-> "admin1", role |-> "admin"] }

\* checkAuth and checkPermission: the error they throw, or "ok".
CheckAuth(user) == IF user = NoUser THEN "AuthenticationError" ELSE "ok"

\* checkPermission without its role test.
CheckPermissionLoggedIn(user, requiredRole) == "ok"

CheckPermission(user, requiredRole) ==
  IF user.role # requiredRole /\ user.role # "admin" THEN "ForbiddenError" ELSE "ok"

Authorize(user, requiredRole) ==
  IF CheckAuth(user) # "ok" THEN CheckAuth(user)
  ELSE CheckPermission(user, requiredRole)

\* ------------------------------------------------------------------- inputs
\* Client inputs (WarningSignInput) and provider outcomes the model draws.
RiskLevelInputs == {"High"}
EvidenceInputs ==
  { [marketData |-> [priceChange |-> 5], socialData |-> [sentiment |-> 1]] }
ServiceEvidenceInputs ==
  { [onChainData |-> [pairAddress |-> "0xpair"]] }
ScoreOutputs == {80}
ChainTimestamps == {7}
Resolutions == {"fixed"}

VARIABLES db, nextId, monitoringIntervals, timers, due, procs, last,
          published, subscriptions, delivered, messages, submissions,
          rooms, sockets, sent, handlers, call

vars == <<db, nextId, monitoringIntervals, timers, due, procs, last,
          published, subscriptions, delivered, messages, submissions,
          rooms, sockets, sent, handlers, call>>

\* ---------------------------------------------------------- the chat server
\* The WebSocket connections, and a connection's roomId and userId before it
\* joins a room and after it leaves one.
Conns == {"c1", "c2"}
Rooms == {"r1", "r2"}
\* A connection after the 'connection' event: no roomId and no userId,
\* isAlive true, open; pinged tells whether the peer holds a ping that it has
\* not answered.
Unjoined == [roomId |-> "", userId |-> "", isAlive |-> TRUE, readyState |-> "OPEN",
             pinged |-> FALSE]

\* ChatService: rooms is the Map roomId -> Set of connections (its DOMAIN the
\* keys of the Map), sockets the fields of each connection, sent the frames the
\* last step sent to each connection, handlers the handleJoinRoom and
\* handleChatMessage calls in flight.
WsVars == <<rooms, sockets, sent, handlers>>
NoFrames == [c \in Conns |-> {}]

InitWs ==
  /\ rooms = [r \in {} |-> {}]
  /\ sockets = [c \in Conns |-> Unjoined]
  /\ sent = NoFrames
  /\ handlers = {}

\* call is a call of a function that touches no state of the services: its
\* name, its arguments, whether it has returned and what it returned.
NoCall == [fn |-> "none", args |-> << >>, returned |-> FALSE, result |-> 0]
Called(fn, args) == [fn |-> fn, args |-> args, returned |-> FALSE, result |-> 0]

\* ------------------------------------------------------------------ pub/sub
\* Subscription triggers
EVENTS ==
  [ WARNING_SIGN_CREATED |-> "WARNING_SIGN_CREATED",
    WARNING_SIGN_UPDATED |-> "WARNING_SIGN_UPDATED",
    CHAT_MESSAGE_SENT |-> "CHAT_MESSAGE_SENT",
    CHAT_MESSAGE_UPDATED |-> "CHAT_MESSAGE_UPDATED" ]

Event(topic, payload) == [topic |-> topic, payload |-> payload]

\* pubsub.publish for each event of events: every subscription whose iterator
\* listens on the event's trigger name receives it.  published is what the
\* step handed to publish.
Publish(events) ==
  /\ published' = events
  /\ delivered' = delivered \cup
       { [subscription |-> x[1], event |-> events[x[2]]] :
           x \in { y \in subscriptions \X DOMAIN events :
                     y[1].topic = events[y[2]].topic } }

\* The chat and insider stores and the subscriptions, none of which the
\* warning engine touches.
ChatVars == <<subscriptions, messages, submissions, rooms, sockets, handlers, call>>

InitState ==
  /\ db = [i \in WarningIds |-> Null]
  /\ nextId = 1
  /\ monitoringIntervals = {}
  /\ timers = [i \in WarningIds |-> 0]
  /\ due = [i \in WarningIds |-> 0]
  /\ procs = EmptyBag
  /\ last = [op |-> "init", id |-> 0, res |-> "ok"]
  /\ published = << >>
  /\ subscriptions = {}
  /\ delivered = {}
  /\ messages = [m \in MessageIds |-> Null]
  /\ submissions = [i \in SubmissionIds |-> Null]
  /\ InitWs

Init ==
  /\ InitState
  /\ call = NoCall

\* A step of the warning engine that ends without a publish call.
Done(op, id, res) ==
  /\ last' = [op |-> op, id |-> id, res |-> res]
  /\ Publish(<< >>)
  /\ sent' = NoFrames
  /\ UNCHANGED ChatVars

\* A step of the warning engine that ends after pubsub.publish(topic, payload).
DonePublished(op, id, res, topic, payload) ==
  /\ last' = [op |-> op, id |-> id, res |-> res]
  /\ Publish(<<Event(topic, payload)>>)
  /\ sent' = NoFrames
  /\ UNCHANGED ChatVars

\* ------------------------------------------------- the WarningSign document
\* new WarningSign(fields): the schema defaults fill what fields leaves out.
NewWarningSign(fields) ==
  [ status |-> IF "status" \in DOMAIN fields THEN fields.status ELSE "Active",
    riskLevel |-> IF "riskLevel" \in DOMAIN fields THEN fields.riskLevel ELSE "Medium",
    evidence |-> EvidencePath(IF "evidence" \in DOMAIN fields THEN fields.evidence
                              ELSE EmptyRec),
    aiAnalysis |-> fields.aiAnalysis,
    resolutionDetails |-> EmptyRec,
    notificationsSent |-> IF "notificationsSent" \in DOMAIN fields
                          THEN fields.notificationsSent ELSE << >> ]

\* An updateRiskLevel that raises the level one tier above the stored one.
UpdateRiskLevelDocEscalates(doc, newEvidence) ==
  [doc EXCEPT !.riskLevel = CASE doc.riskLevel = "Low" -> "Medium"
                              [] doc.riskLevel = "Medium" -> "High"
                              [] OTHER -> "Critical"]

\* warningSignSchema.methods.updateRiskLevel, up to its save.
UpdateRiskLevelDoc(doc, newEvidence) ==
  LET merged == [c \in Categories |->
                   IF c \in DOMAIN newEvidence
                   THEN Spread(doc.evidence[c], newEvidence[c])
                   ELSE doc.evidence[c]]
  IN [doc EXCEPT !.evidence = merged,
                 !.riskLevel = RiskLevelOf(doc.aiAnalysis.riskScore)]

\* warningSignSchema.methods.resolveWarning, up to its save.
ResolveWarning(doc, userId, resolution) ==
  [doc EXCEPT !.status = "Resolved",
              !.resolutionDetails = [resolvedAt |-> "now", resolvedBy |-> userId,
                                     resolution |-> resolution]]

\* warningSignSchema.methods.markAsFalseAlarm, up to its save.
MarkAsFalseAlarm(doc, userId, explanation) ==
  [doc EXCEPT !.status = "False Alarm",
              !.resolutionDetails = [resolvedAt |-> "now", resolvedBy |-> userId,
                                     resolution |-> "False Alarm: " \o explanation]]

\* WarningSign.findById
FindById(id) == db[id]

\* ------------------------------------------------------- the timer registry
\* startMonitoring without its early return: a second setInterval for the id.
StartedNoGuard(id) ==
  /\ timers' = [timers EXCEPT ![id] = @ + 1]
  /\ monitoringIntervals' = monitoringIntervals \cup {id}
  /\ due' = due

\* What startMonitoring does to the registry and the timers.
Started(id) ==
  IF id \in monitoringIntervals
  THEN UNCHANGED <<monitoringIntervals, timers, due>>
  ELSE /\ timers' = [timers EXCEPT ![id] = @ + 1]
       /\ monitoringIntervals' = monitoringIntervals \cup {id}
       /\ due' = due

\* A stop that clears every timer of the registry.
StoppedAll(id) ==
  /\ timers' = [i \in WarningIds |-> 0]
  /\ due' = [i \in WarningIds |-> 0]
  /\ monitoringIntervals' = {}

\* What stopMonitoring does: clearInterval cancels the timer and what it has
\* pending, delete drops the entry.
Stopped(id) ==
  IF id \in monitoringIntervals
  THEN /\ timers' = [timers EXCEPT ![id] = @ - 1]
       /\ due' = [due EXCEPT ![id] = 0]
       /\ monitoringIntervals' = monitoringIntervals \ {id}
  ELSE UNCHANGED <<monitoringIntervals, timers, due>>

\* -------------------------------------------------- the GraphQL mutations
\* Mutation.createWarningSign
MutationCreateWarningSign(user, input) ==
  /\ nextId <= MaxDocs
  /\ IF CheckAuth(user) # "ok"
     THEN /\ Done("createWarningSign", 0, CheckAuth(user))
          /\ UNCHANGED <<db, nextId>>
     ELSE \E saved \in BOOLEAN :
            IF ~saved
            THEN /\ Done("createWarningSign", 0, "SaveError")
                 /\ UNCHANGED <<db, nextId>>
            ELSE /\ db' = [db EXCEPT ![nextId] =
                             NewWarningSign(Spread(input, [aiAnalysis |-> [riskScore |-> 0]]))]
                 /\ nextId' = nextId + 1
                 /\ DonePublished("createWarningSign", nextId, "ok",
                                  EVENTS.WARNING_SIGN_CREATED, [warningSignCreated |-> nextId])
  /\ UNCHANGED <<monitoringIntervals, timers, due, procs>>

\* Mutation.updateWarningSign: findByIdAndUpdate sets the fields of input in
\* one store operation and returns null for an unknown id.  The payload of an
\* event is the id of the warning it carries, 0 for null.
MutationUpdateWarningSign(user, id, input) ==
  /\ IF Authorize(user, "moderator") # "ok"
     THEN /\ Done("Mutation.updateWarningSign", id, Authorize(user, "moderator"))
          /\ UNCHANGED db
     ELSE IF FindById(id) = Null
     THEN /\ DonePublished("Mutation.updateWarningSign", id, "null",
                           EVENTS.WARNING_SIGN_UPDATED, [warningSignUpdated |-> 0])
          /\ UNCHANGED db
     ELSE /\ db' = [db EXCEPT ![id] =
                      [@ EXCEPT !.riskLevel = input.riskLevel,
                                !.evidence = EvidencePath(input.evidence)]]
          /\ DonePublished("Mutation.updateWarningSign", id, "ok",
                           EVENTS.WARNING_SIGN_UPDATED, [warningSignUpdated |-> id])
  /\ UNCHANGED <<nextId, monitoringIntervals, timers, due, procs>>

\* Mutation.resolveWarningSign.  The load and the save are two awaits; what is
\* saved does not depend on what was loaded, so they are one step here.
ResolveWarningSignPublishesFirst(user, id, resolution) ==
  /\ IF Authorize(user, "moderator") # "ok"
     THEN /\ Done("resolveWarningSign", id, Authorize(user, "moderator"))
          /\ UNCHANGED db
     ELSE IF FindById(id) = Null
     THEN /\ Done("resolveWarningSign", id, "TypeError")
          /\ UNCHANGED db
     ELSE \E saved \in BOOLEAN :
            IF ~saved
            THEN /\ DonePublished("resolveWarningSign", id, "SaveError",
                                  EVENTS.WARNING_SIGN_UPDATED, [warningSignUpdated |-> id])
                 /\ UNCHANGED db
            ELSE /\ db' = [db EXCEPT ![id] = ResolveWarning(@, user.id, resolution)]
                 /\ DonePublished("resolveWarningSign", id, "ok",
                                  EVENTS.WARNING_SIGN_UPDATED, [warningSignUpdated |-> id])
  /\ UNCHANGED <<nextId, monitoringIntervals, timers, due, procs>>

ResolveWarningSign(user, id, resolution) ==
  /\ IF Authorize(user, "moderator") # "ok"
     THEN /\ Done("resolveWarningSign", id, Authorize(user, "moderator"))
          /\ UNCHANGED db
     ELSE IF FindById(id) = Null
     THEN /\ Done("resolveWarningSign", id, "TypeError")
          /\ UNCHANGED db
     ELSE \E saved \in BOOLEAN :
            IF ~saved
            THEN /\ Done("resolveWarningSign", id, "SaveError")
                 /\ UNCHANGED db
            ELSE /\ db' = [db EXCEPT ![id] = ResolveWarning(@, user.id, resolution)]
                 /\ DonePublished("resolveWarningSign", id, "ok",
                                  EVENTS.WARNING_SIGN_UPDATED, [warningSignUpdated |-> id])
  /\ UNCHANGED <<nextId, monitoringIntervals, timers, due, procs>>

\* Mutation.markWarningSignAsFalseAlarm
MarkWarningSignAsFalseAlarm(user, id, explanation) ==
  /\ IF Authorize(user, "moderator") # "ok"
     THEN /\ Done("markWarningSignAsFalseAlarm", id, Authorize(user, "moderator"))
          /\ UNCHANGED db
     ELSE IF FindById(id) = Null
     THEN /\ Done("markWarningSignAsFalseAlarm", id, "TypeError")
          /\ UNCHANGED db
     ELSE \E saved \in BOOLEAN :
            IF ~saved
            THEN /\ Done("markWarningSignAsFalseAlarm", id, "SaveError")
                 /\ UNCHANGED db
            ELSE /\ db' = [db EXCEPT ![id] = MarkAsFalseAlarm(@, user.id, explanation)]
                 /\ DonePublished("markWarningSignAsFalseAlarm", id, "ok",
                                  EVENTS.WARNING_SIGN_UPDATED, [warningSignUpdated |-> id])
  /\ UNCHANGED <<nextId, monitoringIntervals, timers, due, procs>>

\* A warning removed from the store by an administrator, outside the API: what
\* the null checks after findById allow for.
DeleteOutOfBand(id) ==
  /\ FindById(id) # Null
  /\ db' = [db EXCEPT ![id] = Null]
  /\ Done("delete", id, "ok")
  /\ UNCHANGED <<nextId, monitoringIntervals, timers, due, procs>>

\* ---------------------------------------------------------- WarningService
\* An asynchronous call in flight.  kind "tick" is a checkWarningStatus call
\* made by a timer, kind "update" an updateWarningSign call made from outside.
\* A tick that reaches line 158 continues through the pcs of updateWarningSign.
Proc(kind, id, pc, warning, contractRisks, data, analysis) ==
  [kind |-> kind, id |-> id, pc |-> pc, warning |-> warning,
   contractRisks |-> contractRisks, data |-> data, analysis |-> analysis]

\* procs is the bag of the calls in flight.
Add(q) == procs (+) SetToBag({q})
Remove(p) == procs (-) SetToBag({p})
Replace(p, q) == (procs (-) SetToBag({p})) (+) SetToBag({q})

\* The number of checkWarningStatus calls in flight for id.
TicksInFlight(id) ==
  BagCardinality([p \in {q \in BagToSet(procs) : q.kind = "tick" /\ q.id = id} |-> procs[p]])

\* parseFloat(obj[key]); NaN for a key that is absent.
NaN == -999999
Infinity == 999999

ParseFloat(obj, key) == IF key \in DOMAIN obj THEN obj[key] ELSE NaN

Plus(a, b) == IF a = NaN \/ b = NaN THEN NaN ELSE a + b

\* ((newLiquidity - oldLiquidity) / oldLiquidity) * 100 in floating point, to
\* the whole percent.
CalculateLiquidityChange(oldData, newData) ==
  IF oldData = Null \/ newData = Null THEN 0
  ELSE LET oldLiquidity == Plus(ParseFloat(oldData, "reserve0"), ParseFloat(oldData, "reserve1"))
           newLiquidity == Plus(ParseFloat(newData, "reserve0"), ParseFloat(newData, "reserve1"))
       IN IF oldLiquidity = NaN \/ newLiquidity = NaN THEN NaN
          ELSE IF oldLiquidity = 0
               THEN IF newLiquidity = 0 THEN NaN
                    ELSE IF newLiquidity > 0 THEN Infinity ELSE -Infinity
          ELSE ((newLiquidity - oldLiquidity) * 100) \div oldLiquidity

\* Lines 143-155 of checkWarningStatus: the evidence a tick hands to
\* updateWarningSign.  liquidityData is Null when no pool was fetched.
TickEvidence(warning, contractRisks, liquidityData) ==
  [ onChainData |-> Spread(warning.evidence.onChainData, contractRisks),
    marketData |->
      IF liquidityData # Null
      THEN Spread(warning.evidence.marketData,
                  [liquidityChange |->
                     CalculateLiquidityChange(warning.evidence.marketData, liquidityData)])
      ELSE warning.evidence.marketData ]

\* A createWarningSign that starts the timer before it calls the providers.
ServiceCreateStartsFirst(data, outcome, score) ==
  /\ nextId <= MaxDocs
  /\ IF "requiresMonitoring" \in DOMAIN data /\ data.requiresMonitoring
     THEN Started(nextId)
     ELSE UNCHANGED <<monitoringIntervals, timers, due>>
  /\ IF outcome # "ok"
     THEN /\ Done("WarningService.createWarningSign", 0, outcome)
          /\ UNCHANGED <<db, nextId>>
     ELSE /\ db' = [db EXCEPT ![nextId] =
                      NewWarningSign(Spread(data, [aiAnalysis |-> [riskScore |-> score],
                                                   status |-> "Active"]))]
          /\ nextId' = nextId + 1
          /\ Done("WarningService.createWarningSign", nextId, "ok")
  /\ UNCHANGED procs

\* WarningService.createWarningSign.  It reads no shared state before its save,
\* so its awaits are one step.  outcome names the provider call that failed.
ServiceCreateWarningSign(data, outcome, score) ==
  /\ nextId <= MaxDocs
  /\ IF outcome # "ok"
     THEN /\ Done("WarningService.createWarningSign", 0, outcome)
          /\ UNCHANGED <<db, nextId, monitoringIntervals, timers, due>>
     ELSE /\ db' = [db EXCEPT ![nextId] =
                      NewWarningSign(Spread(data, [aiAnalysis |-> [riskScore |-> score],
                                                   status |-> "Active"]))]
          /\ nextId' = nextId + 1
          /\ IF "requiresMonitoring" \in DOMAIN data /\ data.requiresMonitoring
             THEN Started(nextId)
             ELSE UNCHANGED <<monitoringIntervals, timers, due>>
          /\ Done("WarningService.createWarningSign", nextId, "ok")
  /\ UNCHANGED procs

\* WarningService.updateWarningSign: the call, up to its first await.
ServiceUpdateWarningSign(id, data) ==
  /\ procs' = Add(Proc("update", id, "update.findById", Null, EmptyRec, data, EmptyRec))
  /\ Done("update", id, "pending")
  /\ UNCHANGED <<db, nextId, monitoringIntervals, timers, due>>

\* updateWarningSign, lines 57-68: findById answers.
UpdateFindById(p) ==
  /\ p.pc = "update.findById"
  /\ IF FindById(p.id) = Null
     THEN /\ procs' = Remove(p)
          /\ Done(p.kind, p.id, "NotFound")
     ELSE /\ procs' = Replace(p, [p EXCEPT !.pc =
                         IF "evidence" \in DOMAIN p.data THEN "predictRugPullRisk" ELSE "save"])
          /\ Done(p.kind, p.id, "pending")
  /\ UNCHANGED <<db, nextId, monitoringIntervals, timers, due>>

\* updateWarningSign, lines 65-72: the scorer answers or fails.
UpdatePredict(p, outcome, score) ==
  /\ p.pc = "predictRugPullRisk"
  /\ IF outcome # "ok"
     THEN /\ procs' = Remove(p)
          /\ Done(p.kind, p.id, outcome)
     ELSE /\ procs' = Replace(p, [p EXCEPT !.pc = "save",
                                    !.analysis = [riskScore |-> score]])
          /\ Done(p.kind, p.id, "pending")
  /\ UNCHANGED <<db, nextId, monitoringIntervals, timers, due>>

\* What save writes: the paths the call assigned (the keys of data, and
\* aiAnalysis when the evidence was re-scored), and no other path.
Saved(doc, p) ==
  [ status |-> IF "status" \in DOMAIN p.data THEN p.data.status ELSE doc.status,
    resolutionDetails |-> doc.resolutionDetails,
    riskLevel |-> IF "riskLevel" \in DOMAIN p.data THEN p.data.riskLevel ELSE doc.riskLevel,
    evidence |-> IF "evidence" \in DOMAIN p.data THEN EvidencePath(p.data.evidence)
                 ELSE doc.evidence,
    aiAnalysis |-> IF "evidence" \in DOMAIN p.data THEN p.analysis ELSE doc.aiAnalysis,
    notificationsSent |-> IF "notificationsSent" \in DOMAIN p.data
                          THEN p.data.notificationsSent ELSE doc.notificationsSent ]

\* updateWarningSign, lines 72-75: the save completes.
UpdateSave(p) ==
  /\ p.pc = "save"
  /\ IF FindById(p.id) = Null
     THEN /\ Done(p.kind, p.id, "DocumentNotFound")
          /\ UNCHANGED db
     ELSE /\ db' = [db EXCEPT ![p.id] = Saved(@, p)]
          /\ Done(p.kind, p.id, "saved")
  /\ procs' = Remove(p)
  /\ UNCHANGED <<nextId, monitoringIntervals, timers, due>>

\* The recipient lists sendNotifications is called with.
RecipientInputs ==
  UNION { [1..n -> {"a@x", "b@x"}] : n \in 0..MaxRecipients }

\* The entry sendNotifications pushes.
Notification(recipients) ==
  [type |-> "Push", timestamp |-> "now", recipients |-> Len(recipients)]

\* WarningService.sendNotifications.  The push is saved as an append to the
\* stored array, whatever the array held when the warning was loaded, so the
\* load and the save are one step.
SendNotifications(warningId, recipients) ==
  /\ IF FindById(warningId) = Null
     THEN /\ Done("sendNotifications", warningId, "NotFound")
          /\ UNCHANGED db
     ELSE /\ db' = [db EXCEPT ![warningId].notificationsSent =
                      Append(@, Notification(recipients))]
          /\ Done("sendNotifications", warningId, "ok")
  /\ UNCHANGED <<nextId, monitoringIntervals, timers, due, procs>>

\* WarningService.startMonitoring
StartMonitoring(id) ==
  /\ Started(id)
  /\ Done("startMonitoring", id,
          IF id \in monitoringIntervals THEN "returned" ELSE "Started monitoring")
  /\ UNCHANGED <<db, nextId, procs>>

\* WarningService.stopMonitoring
StopMonitoring(id) ==
  /\ Stopped(id)
  /\ Done("stopMonitoring", id,
          IF id \in monitoringIntervals THEN "Stopped monitoring" ELSE "returned")
  /\ UNCHANGED <<db, nextId, procs>>

\* Five minutes pass: every live timer has one callback pending.
IntervalElapse ==
  /\ due # timers
  /\ due' = timers
  /\ Done("interval", 0, "ok")
  /\ UNCHANGED <<db, nextId, monitoringIntervals, timers, procs>>

\* The interval callback of startMonitoring runs: checkWarningStatus is called
\* and runs to its first await.
TimerFire(id) ==
  /\ due[id] > 0
  /\ due' = [due EXCEPT ![id] = @ - 1]
  /\ procs' = Add(Proc("tick", id, "findById", Null, EmptyRec, EmptyRec, EmptyRec))
  /\ Done("tick", id, "pending")
  /\ UNCHANGED <<db, nextId, monitoringIntervals, timers>>

\* The warning a tick holds after line 125: of the loaded document it reads
\* the evidence, and no other path that the model keeps.
Loaded(warning) == [evidence |-> warning.evidence]

\* The status check without the stopMonitoring call of line 123.
CheckFindByIdKeepsTimer(p) ==
  LET warning == FindById(p.id) IN
  /\ p.kind = "tick" /\ p.pc = "findById"
  /\ IF warning = Null \/ warning.status # "Active"
     THEN /\ procs' = Remove(p)
          /\ UNCHANGED <<monitoringIntervals, timers, due>>
          /\ Done("tick", p.id, "retired")
     ELSE /\ procs' = Replace(p, [p EXCEPT !.pc = "analyzeContractRisks",
                                    !.warning = Loaded(warning)])
          /\ UNCHANGED <<monitoringIntervals, timers, due>>
          /\ Done("tick", p.id, "pending")
  /\ UNCHANGED <<db, nextId>>

\* A status check that takes only a missing warning out of monitoring.
CheckFindByIdMissingOnly(p) ==
  LET warning == FindById(p.id) IN
  /\ p.kind = "tick" /\ p.pc = "findById"
  /\ IF warning = Null
     THEN /\ procs' = Remove(p)
          /\ Stopped(p.id)
          /\ Done("tick", p.id, "retired")
     ELSE IF warning.status # "Active"
     THEN /\ procs' = Remove(p)
          /\ UNCHANGED <<monitoringIntervals, timers, due>>
          /\ Done("tick", p.id, "retired")
     ELSE /\ procs' = Replace(p, [p EXCEPT !.pc = "analyzeContractRisks",
                                    !.warning = Loaded(warning)])
          /\ UNCHANGED <<monitoringIntervals, timers, due>>
          /\ Done("tick", p.id, "pending")
  /\ UNCHANGED <<db, nextId>>

\* checkWarningStatus, lines 121-131: findById answers.
CheckFindById(p) ==
  LET warning == FindById(p.id) IN
  /\ p.kind = "tick" /\ p.pc = "findById"
  /\ IF warning = Null \/ warning.status # "Active"
     THEN /\ procs' = Remove(p)
          /\ Stopped(p.id)
          /\ Done("tick", p.id, "retired")
     ELSE /\ procs' = Replace(p, [p EXCEPT !.pc = "analyzeContractRisks",
                                    !.warning = Loaded(warning)])
          /\ UNCHANGED <<monitoringIntervals, timers, due>>
          /\ Done("tick", p.id, "pending")
  /\ UNCHANGED <<db, nextId>>

\* A tick whose chain call fails takes its warning out of monitoring.
CheckAnalyzeStopsOnFailure(p, outcome, contractRisks) ==
  /\ p.kind = "tick" /\ p.pc = "analyzeContractRisks"
  /\ IF outcome # "ok"
     THEN /\ procs' = Remove(p)
          /\ Stopped(p.id)
          /\ Done("tick", p.id, outcome)
     ELSE /\ procs' = Replace(p, [p EXCEPT
                         !.pc = "update.findById",
                         !.warning = Null,
                         !.data = [evidence |-> TickEvidence(p.warning, contractRisks, Null)]])
          /\ UNCHANGED <<monitoringIntervals, timers, due>>
          /\ Done("tick", p.id, "pending")
  /\ UNCHANGED <<db, nextId>>

\* checkWarningStatus, lines 128-140 (and 143-158 when no pool is known):
\* analyzeContractRisks answers or fails.
CheckAnalyzeContractRisks(p, outcome, contractRisks) ==
  /\ p.kind = "tick" /\ p.pc = "analyzeContractRisks"
  /\ IF outcome # "ok"
     THEN /\ procs' = Remove(p)
          /\ Done("tick", p.id, outcome)
     ELSE IF "pairAddress" \in DOMAIN p.warning.evidence.onChainData
     THEN /\ procs' = Replace(p, [p EXCEPT !.pc = "checkLiquidityPool",
                                    !.contractRisks = contractRisks])
          /\ Done("tick", p.id, "pending")
     ELSE /\ procs' = Replace(p, [p EXCEPT
                         !.pc = "update.findById",
                         !.warning = Null,
                         !.data = [evidence |-> TickEvidence(p.warning, contractRisks, Null)]])
          /\ Done("tick", p.id, "pending")
  /\ UNCHANGED <<db, nextId, monitoringIntervals, timers, due>>

\* checkWarningStatus, lines 136-158: checkLiquidityPool answers or fails.
CheckLiquidityPool(p, outcome, liquidityData) ==
  /\ p.kind = "tick" /\ p.pc = "checkLiquidityPool"
  /\ IF outcome # "ok"
     THEN /\ procs' = Remove(p)
          /\ Done("tick", p.id, outcome)
     ELSE /\ procs' = Replace(p, [p EXCEPT
                         !.pc = "update.findById",
                         !.warning = Null,
                         !.contractRisks = EmptyRec,
                         !.data = [evidence |->
                                        TickEvidence(p.warning, p.contractRisks, liquidityData)]])
          /\ Done("tick", p.id, "pending")
  /\ UNCHANGED <<db, nextId, monitoringIntervals, timers, due>>

\* ------------------------------------------------------------ chat messages
WarningVars == <<db, nextId, monitoringIntervals, timers, due, procs>>

ChatUser(n) == [id |-> "u" \o ToString(n), role |-> "user"]
Flaggers == {ChatUser(n) : n \in 1..MaxFlaggers}
ModerationInputs == {"approved", "rejected"}
ReactionInputs == {"likes", "dislikes", "laughs"}

\* A step of the chat or insider code: its result and what it published.
ChatDone(op, id, res, events) ==
  /\ last' = [op |-> op, id |-> id, res |-> res]
  /\ Publish(events)
  /\ UNCHANGED WarningVars
  /\ sent' = NoFrames
  /\ UNCHANGED <<rooms, sockets, handlers, call>>

\* new ChatMessage({...input, sender}) with the defaults of chatMessageSchema.
NewChatMessage(input, user) ==
  [ roomId |-> input.roomId,
    sender |-> user.id,
    reactions |-> [likes |-> {}, dislikes |-> {}, flags |-> {}],
    visibility |-> "public",
    moderationStatus |-> [status |-> "pending"] ]

\* An addReaction that pushes without removing the user's earlier reaction.
AddReactionKeepsEarlier(doc, userId, reactionType) ==
  [doc EXCEPT !.reactions[reactionType] = @ \cup {userId}]

\* chatMessageSchema.methods.addReaction, up to its save.
AddReaction(doc, userId, reactionType) ==
  [doc EXCEPT
     !.reactions.likes =
        (@ \ {userId}) \cup (IF reactionType = "likes" THEN {userId} ELSE {}),
     !.reactions.dislikes =
        (@ \ {userId}) \cup (IF reactionType = "dislikes" THEN {userId} ELSE {})]

\* chatMessageSchema.methods.flagMessage, up to its save, for a user that has
\* not flagged the message.
FlagMessage(doc, userId, reason) ==
  LET flags == doc.reactions.flags \cup {[userId |-> userId, reason |-> reason]}
      pushed == [doc EXCEPT !.reactions.flags = flags]
  IN IF Cardinality(flags) >= FlagThreshold
     THEN [pushed EXCEPT !.visibility = "moderated",
                         !.moderationStatus =
                            Spread(@, [status |-> "pending"])]
     ELSE pushed

\* chatMessageSchema.methods.moderateMessage, up to its save.
ModerateMessage(doc, moderatorId, status, reason) ==
  LET moderated == [doc EXCEPT !.moderationStatus =
                      [status |-> status, moderatedBy |-> moderatorId,
                       moderationTime |-> "now", reason |-> reason]]
  IN IF status = "rejected"
     THEN [moderated EXCEPT !.visibility = "moderated"]
     ELSE moderated

\* The payload of a chat event: the message (by id) and its room.
ChatSent(m, roomId) ==
  Event(EVENTS.CHAT_MESSAGE_SENT, [chatMessageSent |-> m, roomId |-> roomId])

ChatUpdated(m, roomId) ==
  Event(EVENTS.CHAT_MESSAGE_UPDATED, [chatMessageUpdated |-> m, roomId |-> roomId])

\* Mutation.sendChatMessage
SendChatMessage(user, input) ==
  /\ \E m \in MessageIds : messages[m] = Null
  /\ LET m == CHOOSE k \in MessageIds :
                 messages[k] = Null /\ \A j \in 1..(k - 1) : messages[j] # Null
     IN IF CheckAuth(user) # "ok"
        THEN /\ ChatDone("sendChatMessage", 0, CheckAuth(user), << >>)
             /\ UNCHANGED messages
        ELSE /\ messages' = [messages EXCEPT ![m] = NewChatMessage(input, user)]
             /\ ChatDone("sendChatMessage", m, "ok", <<ChatSent(m, input.roomId)>>)
  /\ UNCHANGED <<subscriptions, submissions>>

\* Mutation.reactToChatMessage
ReactToChatMessage(user, id, reactionType) ==
  /\ IF CheckAuth(user) # "ok"
     THEN /\ ChatDone("reactToChatMessage", id, CheckAuth(user), << >>)
          /\ UNCHANGED messages
     ELSE IF messages[id] = Null
     THEN /\ ChatDone("reactToChatMessage", id, "TypeError", << >>)
          /\ UNCHANGED messages
     ELSE IF reactionType \notin {"likes", "dislikes"}
     THEN /\ ChatDone("reactToChatMessage", id, "Invalid reaction type", << >>)
          /\ UNCHANGED messages
     ELSE /\ messages' = [messages EXCEPT ![id] = AddReaction(@, user.id, reactionType)]
          /\ ChatDone("reactToChatMessage", id, "ok",
                      <<ChatUpdated(id, messages[id].roomId)>>)
  /\ UNCHANGED <<subscriptions, submissions>>

\* A flagChatMessage whose flagMessage does not look for an earlier flag.
FlagChatMessageAgain(user, id, reason) ==
  /\ IF CheckAuth(user) # "ok"
     THEN /\ ChatDone("flagChatMessage", id, CheckAuth(user), << >>)
          /\ UNCHANGED messages
     ELSE IF messages[id] = Null
     THEN /\ ChatDone("flagChatMessage", id, "TypeError", << >>)
          /\ UNCHANGED messages
     ELSE /\ messages' = [messages EXCEPT ![id] = FlagMessage(@, user.id, reason)]
          /\ ChatDone("flagChatMessage", id, "ok",
                      <<ChatUpdated(id, messages[id].roomId)>>)
  /\ UNCHANGED <<subscriptions, submissions>>

\* Mutation.flagChatMessage
FlagChatMessage(user, id, reason) ==
  /\ IF CheckAuth(user) # "ok"
     THEN /\ ChatDone("flagChatMessage", id, CheckAuth(user), << >>)
          /\ UNCHANGED messages
     ELSE IF messages[id] = Null
     THEN /\ ChatDone("flagChatMessage", id, "TypeError", << >>)
          /\ UNCHANGED messages
     ELSE IF \E flag \in messages[id].reactions.flags : flag.userId = user.id
     THEN /\ ChatDone("flagChatMessage", id, "Message already flagged by this user", << >>)
          /\ UNCHANGED messages
     ELSE /\ messages' = [messages EXCEPT ![id] = FlagMessage(@, user.id, reason)]
          /\ ChatDone("flagChatMessage", id, "ok",
                      <<ChatUpdated(id, messages[id].roomId)>>)
  /\ UNCHANGED <<subscriptions, submissions>>

\* Mutation.moderateChatMessage
ModerateChatMessage(user, id, status, reason) ==
  /\ IF Authorize(user, "moderator") # "ok"
     THEN /\ ChatDone("moderateChatMessage", id, Authorize(user, "moderator"), << >>)
          /\ UNCHANGED messages
     ELSE IF messages[id] = Null
     THEN /\ ChatDone("moderateChatMessage", id, "TypeError", << >>)
          /\ UNCHANGED messages
     ELSE /\ messages' = [messages EXCEPT ![id] = ModerateMessage(@, user.id, status, reason)]
          /\ ChatDone("moderateChatMessage", id, "ok",
                      <<ChatUpdated(id, messages[id].roomId)>>)
  /\ UNCHANGED <<subscriptions, submissions>>

\* ---------------------------------------------------- ChatService handlers
\* The userId each connection joins with, and what the scan returns.
UserIds == [c \in Conns |-> IF c = "c1" THEN "u1" ELSE "u2"]
AnalysisOutputs == { [riskIndicators |-> << >>], [riskIndicators |-> <<"scam">>] }

\* The frames the server sends to a connection.
ErrorFrame(error) == [type |-> "error", error |-> error]
ChatFrame(m) == [type |-> "chat", message |-> m]
SystemFrame(content) == [type |-> "system", content |-> content]
HistoryFrame(ms) == [type |-> "history", messages |-> ms]

\* this.rooms.get(roomId), the empty set for a room that is not in the Map.
Members(roomId) == IF roomId \in DOMAIN rooms THEN rooms[roomId] ELSE {}

\* ws.send(frame); a connection that is not open gets nothing.
Send(inb, ws, frame) ==
  IF sockets[ws].readyState = "OPEN" THEN [inb EXCEPT ![ws] = @ \cup {frame}] ELSE inb

\* broadcastToRoom: every open connection of the room but exclude ("" for none).
BroadcastToRoom(inb, roomId, frame, exclude) ==
  [c \in Conns |-> IF c \in Members(roomId) /\ c # exclude /\ sockets[c].readyState = "OPEN"
                   THEN inb[c] \cup {frame} ELSE inb[c]]

\* A handler call in flight.
Handler(kind, ws, roomId, userId, pc, analysis) ==
  [kind |-> kind, ws |-> ws, roomId |-> roomId, userId |-> userId, pc |-> pc,
   analysis |-> analysis]

\* A step of the chat server: its result; it publishes nothing.
WsDone(op, id, res) ==
  /\ last' = [op |-> op, id |-> id, res |-> res]
  /\ Publish(<< >>)
  /\ UNCHANGED WarningVars
  /\ UNCHANGED <<subscriptions, submissions, call>>

\* handleJoinRoom, up to its await of getRecentMessages.
HandleJoinRoom(ws, roomId, userId) ==
  /\ sockets[ws].readyState = "OPEN"
  /\ Handler("join", ws, roomId, userId, "getRecentMessages", EmptyRec) \notin handlers
  /\ rooms' = [r \in DOMAIN rooms \cup {roomId} |->
                 IF r = roomId THEN Members(r) \cup {ws} ELSE rooms[r]]
  /\ sockets' = [sockets EXCEPT ![ws].roomId = roomId, ![ws].userId = userId]
  /\ handlers' = handlers \cup
                   {Handler("join", ws, roomId, userId, "getRecentMessages", EmptyRec)}
  /\ sent' = NoFrames
  /\ WsDone("join", 0, "pending")
  /\ UNCHANGED messages

\* getRecentMessages: the public messages of the room, [] when the query fails.
GetRecentMessages(roomId, outcome) ==
  IF outcome # "ok" THEN {}
  ELSE { m \in MessageIds : /\ messages[m] # Null
                            /\ messages[m].roomId = roomId
                            /\ messages[m].visibility = "public" }

\* handleJoinRoom after the await: the history to the joiner, the notice to
\* the others of the room.
JoinHistory(h, outcome) ==
  /\ h.kind = "join" /\ h.pc = "getRecentMessages"
  /\ sent' = BroadcastToRoom(
                 Send(NoFrames, h.ws, HistoryFrame(GetRecentMessages(h.roomId, outcome))),
                 h.roomId, SystemFrame("User " \o h.userId \o " joined the room"), h.ws)
  /\ handlers' = handlers \ {h}
  /\ WsDone("join", 0, "ok")
  /\ UNCHANGED <<rooms, sockets, messages>>

\* The chat server's Map, connections and frames of the step, as one value.
WsState == [rooms |-> rooms, sockets |-> sockets, sent |-> NoFrames]

\* handleLeaveRoom on st: ws is out of the room, a room left empty is out of
\* the Map, the open connections that stay get the notice, and ws has no
\* roomId and no userId.
Leave(st, ws, roomId) ==
  LET stay == IF roomId \in DOMAIN st.rooms THEN st.rooms[roomId] \ {ws} ELSE {}
      notice == SystemFrame("User " \o st.sockets[ws].userId \o " left the room")
  IN [ rooms |-> IF roomId \notin DOMAIN st.rooms THEN st.rooms
                 ELSE IF stay = {}
                 THEN [r \in DOMAIN st.rooms \ {roomId} |-> st.rooms[r]]
                 ELSE [st.rooms EXCEPT ![roomId] = stay],
       sockets |-> [st.sockets EXCEPT ![ws].roomId = "", ![ws].userId = ""],
       sent |-> [c \in Conns |->
                   IF c \in stay /\ st.sockets[c].readyState = "OPEN"
                   THEN st.sent[c] \cup {notice} ELSE st.sent[c]] ]

\* handleDisconnection on st
Disconnection(st, ws) ==
  LET left == IF st.sockets[ws].roomId # "" THEN Leave(st, ws, st.sockets[ws].roomId)
              ELSE st
  IN [left EXCEPT !.sockets[ws].readyState = "CLOSED"]

\* The chat server goes to the state st.
WsBecomes(st) ==
  /\ rooms' = st.rooms
  /\ sockets' = st.sockets
  /\ sent' = st.sent

\* handleLeaveRoom
HandleLeaveRoom(ws, roomId) ==
  /\ sockets[ws].readyState = "OPEN"
  /\ WsBecomes(Leave(WsState, ws, roomId))
  /\ WsDone("leave", 0, "ok")
  /\ UNCHANGED <<handlers, messages>>

\* The 'close' event of a connection: handleDisconnection.
HandleDisconnection(ws) ==
  /\ sockets[ws].readyState = "OPEN"
  /\ WsBecomes(Disconnection(WsState, ws))
  /\ WsDone("close", 0, "ok")
  /\ UNCHANGED <<handlers, messages>>

\* The 'pong' event of a connection.
Pong(ws) ==
  /\ sockets[ws].readyState = "OPEN"
  /\ sockets' = [sockets EXCEPT ![ws].isAlive = TRUE, ![ws].pinged = FALSE]
  /\ sent' = NoFrames
  /\ WsDone("pong", 0, "ok")
  /\ UNCHANGED <<rooms, handlers, messages>>

\* The clients of the server, in the order they connected.
Clients == <<"c1", "c2">>
PingFrame == [type |-> "ping"]

\* A health check that terminates no connection.
CheckedNeverTerminates(st, ws) ==
  IF st.sockets[ws].readyState # "OPEN" THEN st
  ELSE [st EXCEPT !.sockets[ws].isAlive = FALSE,
                  !.sockets[ws].pinged = TRUE,
                  !.sent[ws] = @ \cup {PingFrame}]

\* The body of the forEach of setupHealthCheck for one client.
Checked(st, ws) ==
  IF st.sockets[ws].readyState # "OPEN" THEN st
  ELSE IF ~st.sockets[ws].isAlive THEN Disconnection(st, ws)
  ELSE [st EXCEPT !.sockets[ws].isAlive = FALSE,
                  !.sockets[ws].pinged = TRUE,
                  !.sent[ws] = @ \cup {PingFrame}]

\* this.wss.clients.forEach over the clients from the i-th on.
RECURSIVE CheckedFrom(_, _)
CheckedFrom(st, i) ==
  IF i > Len(Clients) THEN st ELSE CheckedFrom(Checked(st, Clients[i]), i + 1)

\* The interval callback of setupHealthCheck.
HealthCheck ==
  /\ \E ws \in Conns : sockets[ws].readyState = "OPEN"
  /\ WsBecomes(CheckedFrom(WsState, 1))
  /\ WsDone("healthCheck", 0, "ok")
  /\ UNCHANGED <<handlers, messages>>

\* The number of handleChatMessage calls in flight.
ChatsInFlight == Cardinality({h \in handlers : h.kind = "chat"})

\* A handleChatMessage without the test of roomId and userId.
HandleChatMessageUnchecked(ws) ==
  /\ sockets[ws].readyState = "OPEN"
  /\ Handler("chat", ws, sockets[ws].roomId, sockets[ws].userId,
             "analyzeChatMessage", EmptyRec) \notin handlers
  /\ handlers' = handlers \cup
                   {Handler("chat", ws, sockets[ws].roomId, sockets[ws].userId,
                            "analyzeChatMessage", EmptyRec)}
  /\ WsDone("chat", 0, "pending")
  /\ sent' = NoFrames
  /\ UNCHANGED <<rooms, sockets, messages>>

\* handleChatMessage, lines 147-160: up to its await of the scan.
HandleChatMessage(ws) ==
  /\ sockets[ws].readyState = "OPEN"
  /\ IF sockets[ws].roomId = "" \/ sockets[ws].userId = ""
     THEN /\ sent' = Send(NoFrames, ws, ErrorFrame("Not joined to a room"))
          /\ WsDone("chat", 0, "Not joined to a room")
          /\ UNCHANGED handlers
     ELSE /\ Handler("chat", ws, sockets[ws].roomId, sockets[ws].userId,
                     "analyzeChatMessage", EmptyRec) \notin handlers
          /\ handlers' = handlers \cup
                           {Handler("chat", ws, sockets[ws].roomId, sockets[ws].userId,
                                    "analyzeChatMessage", EmptyRec)}
          /\ WsDone("chat", 0, "pending")
          /\ sent' = NoFrames
  /\ UNCHANGED <<rooms, sockets, messages>>

\* handleChatMessage, lines 160-176 and its catch: the scan answers or fails.
ChatAnalyze(h, outcome, analysis) ==
  /\ h.kind = "chat" /\ h.pc = "analyzeChatMessage"
  /\ IF outcome # "ok"
     THEN /\ handlers' = handlers \ {h}
          /\ sent' = Send(NoFrames, h.ws, ErrorFrame("Failed to process message"))
          /\ WsDone("chat", 0, outcome)
     ELSE /\ handlers' = (handlers \ {h}) \cup
                           {[h EXCEPT !.pc = "save", !.analysis = analysis]}
          /\ sent' = NoFrames
          /\ WsDone("chat", 0, "pending")
  /\ UNCHANGED <<rooms, sockets, messages>>

\* A handler that broadcasts the message whether its save succeeded or not.
ChatSaveAlwaysBroadcasts(h, outcome) ==
  /\ h.kind = "chat" /\ h.pc = "save"
  /\ \E m \in MessageIds : messages[m] = Null
  /\ LET m == CHOOSE k \in MessageIds :
                 messages[k] = Null /\ \A j \in 1..(k - 1) : messages[j] # Null
     IN IF outcome # "ok"
        THEN /\ sent' = BroadcastToRoom(
                            Send(NoFrames, h.ws, ErrorFrame("Failed to process message")),
                            h.roomId, ChatFrame(m), "")
             /\ WsDone("chat", 0, outcome)
             /\ UNCHANGED messages
        ELSE /\ messages' = [messages EXCEPT ![m] =
                               Spread(NewChatMessage([roomId |-> h.roomId], [id |-> h.userId]),
                                      [aiAnalysis |-> h.analysis])]
             /\ sent' = BroadcastToRoom(NoFrames, h.roomId, ChatFrame(m), "")
             /\ WsDone("chat", m, "ok")
  /\ handlers' = handlers \ {h}
  /\ UNCHANGED <<rooms, sockets>>

\* handleChatMessage, lines 176-197: the save answers or fails; a saved
\* message goes to every connection of the room the sender was in at the call.
ChatSave(h, outcome) ==
  /\ h.kind = "chat" /\ h.pc = "save"
  /\ \E m \in MessageIds : messages[m] = Null
  /\ LET m == CHOOSE k \in MessageIds :
                 messages[k] = Null /\ \A j \in 1..(k - 1) : messages[j] # Null
     IN IF outcome # "ok"
        THEN /\ sent' = Send(NoFrames, h.ws, ErrorFrame("Failed to process message"))
             /\ WsDone("chat", 0, outcome)
             /\ UNCHANGED messages
        ELSE /\ messages' = [messages EXCEPT ![m] =
                               Spread(NewChatMessage([roomId |-> h.roomId], [id |-> h.userId]),
                                      [aiAnalysis |-> h.analysis])]
             /\ sent' = BroadcastToRoom(NoFrames, h.roomId, ChatFrame(m), "")
             /\ WsDone("chat", m, "ok")
  /\ handlers' = handlers \ {h}
  /\ UNCHANGED <<rooms, sockets>>

\* The chat server with its connections: join, leave and chat messages arrive
\* and connections close.
NextRooms ==
  \/ \E ws \in Conns, r \in Rooms :
       Cardinality(handlers) < MaxInFlight /\ HandleJoinRoom(ws, r, UserIds[ws])
  \/ \E h \in handlers, o \in {"ok", "DbError"} : JoinHistory(h, o)
  \/ \E ws \in Conns, r \in Rooms : HandleLeaveRoom(ws, r)
  \/ \E ws \in Conns :
       /\ Cardinality(handlers) < MaxInFlight
       /\ ChatsInFlight < Cardinality({m \in MessageIds : messages[m] = Null})
       /\ HandleChatMessage(ws)
  \/ \E h \in handlers, o \in {"ok", "ScanError"}, a \in AnalysisOutputs :
       ChatAnalyze(h, o, a)
  \/ \E h \in handlers, o \in {"ok", "DbError"} : ChatSave(h, o)
  \/ \E ws \in Conns : HandleDisconnection(ws)

\* The connections of the chat server under its health check: connections
\* join and leave rooms and close, the health check runs and pongs arrive.
NextHealth ==
  \/ \E ws \in Conns, r \in Rooms :
       Cardinality(handlers) < MaxInFlight /\ HandleJoinRoom(ws, r, UserIds[ws])
  \/ \E h \in handlers, o \in {"ok", "DbError"} : JoinHistory(h, o)
  \/ \E ws \in Conns, r \in Rooms : HandleLeaveRoom(ws, r)
  \/ \E ws \in Conns : HandleDisconnection(ws)
  \/ \E ws \in Conns : Pong(ws)
  \/ HealthCheck

\* ---------------------------------------------------------------- AIService
\* The call of fn that is in progress returns result.
Returned(fn, result) ==
  /\ call.fn = fn /\ ~call.returned
  /\ call' = [call EXCEPT !.returned = TRUE, !.result = result]
  /\ last' = [op |-> fn, id |-> 0, res |-> "ok"]
  /\ Publish(<< >>)
  /\ sent' = NoFrames
  /\ UNCHANGED WarningVars
  /\ UNCHANGED <<subscriptions, messages, submissions, rooms, sockets, handlers>>

\* A chat message, by what calculateMessageCredibility reads of it: its
\* length, whether it includes 'http', and whether 0x and 40 hex digits occur
\* in it.
MessageLengths == {0, 3, 4, 41, 42, 46, 100, 101, 120, 200, 201, 250}
MessageInputs ==
  { m \in [length : MessageLengths, http : BOOLEAN, address : BOOLEAN] :
      /\ m.http => m.length >= 4
      /\ m.address => m.length >= AddressLength
      /\ (m.http /\ m.address) => m.length >= AddressLength + 4 }

\* The indicators array with k matched keywords.
Indicators(k) == [i \in 1..k |-> "scam"]

\* The score without the final clamp.
CalculateMessageCredibilityUnclamped(message, indicators) ==
  BaseCredibility
    + (IF message.length > LongMessage THEN LengthBonus ELSE 0)
    + (IF message.length > VeryLongMessage THEN LengthBonus ELSE 0)
    - Len(indicators) * KeywordPenalty
    + (IF message.http THEN UrlBonus ELSE 0)
    + (IF message.address THEN AddressBonus ELSE 0)

\* AIService.calculateMessageCredibility
CalculateMessageCredibility(message, indicators) ==
  LET s1 == BaseCredibility
      s2 == IF message.length > LongMessage THEN s1 + LengthBonus ELSE s1
      s3 == IF message.length > VeryLongMessage THEN s2 + LengthBonus ELSE s2
      s4 == s3 - Len(indicators) * KeywordPenalty
      s5 == IF message.http THEN s4 + UrlBonus ELSE s4
      score == IF message.address THEN s5 + AddressBonus ELSE s5
  IN Min(Max(score, 0), MaxRiskScore)

CalculateMessageCredibilityCall ==
  Returned("calculateMessageCredibility",
           CalculateMessageCredibility(call.args[1], call.args[2]))

\* The value of a key that an object does not have.
Undefined == -999998

\* obj[key]
Get(obj, key) == IF key \in DOMAIN obj THEN obj[key] ELSE Undefined

\* value || 0 and value ? 1 : 0, on undefined and numbers.
OrZero(value) == IF value = Undefined \/ value = 0 THEN 0 ELSE value
OneIfTruthy(value) == IF value = Undefined \/ value = 0 THEN 1 - 1 ELSE 1

\* The keys extractProjectFeatures reads, in the order of the features array.
FeatureKeys ==
  << "teamAnonymous", "teamSocialPresence", "teamPastProjects",
     "tokenLiquidity", "tokenHolderCount", "tokenDistribution",
     "contractAudited", "contractAge", "contractRiskPatterns",
     "marketCap", "priceVolatility", "tradingVolume" >>

\* AIService.extractProjectFeatures
ExtractProjectFeatures(projectData) ==
  [i \in DOMAIN FeatureKeys |->
     IF FeatureKeys[i] \in {"teamAnonymous", "contractAudited"}
     THEN OneIfTruthy(Get(projectData, FeatureKeys[i]))
     ELSE OrZero(Get(projectData, FeatureKeys[i]))]

\* Math.round(n / d) for n >= 0 and d > 0.
RoundDiv(n, d) == (2 * n + d) \div (2 * d)

\* AIService.calculateConfidence
CalculateConfidence(features) ==
  LET validFeatures == Cardinality({i \in DOMAIN features : features[i] # Undefined})
  IN RoundDiv(validFeatures * 100, Len(features))

\* AIService.predictRugPullRisk with an initialized model whose prediction,
\* times 100 and rounded, is riskScore.
PredictRugPullRisk(projectData, score) ==
  LET features == ExtractProjectFeatures(projectData)
  IN [riskScore |-> score, confidence |-> CalculateConfidence(features)]

PredictRugPullRiskCall(score) ==
  Returned("predictRugPullRisk", PredictRugPullRisk(call.args[1], score))

CalculateLiquidityChangeCall ==
  Returned("calculateLiquidityChange",
           CalculateLiquidityChange(call.args[1], call.args[2]))

\* ----------------------------------------------------------- RugCoinService
TombstoneIds == 1..MaxTombstones

\* RugCoinTombstone.findById on the collection.
FindTombstone(collection, id) ==
  IF id \in DOMAIN collection THEN collection[id] ELSE Null

\* The filter of the find in getSimilarCases.
SimilarFilter(collection, tombstoneId, tombstone) ==
  { i \in DOMAIN collection :
      /\ i # tombstoneId
      /\ collection[i].blockchainNetwork = tombstone.blockchainNetwork
      /\ collection[i].fraudTactics \cap tombstone.fraudTactics # {}
      /\ collection[i].verificationStatus = "Verified" }

\* sort({ rugPullDate: -1 }) and limit(n) on the ids of matched: every order
\* the store may return, two tombstones of one date coming in either order.
RECURSIVE SortedLimit(_, _, _)
SortedLimit(collection, matched, n) ==
  IF n = 0 \/ matched = {} THEN { << >> }
  ELSE UNION { { <<i>> \o rest : rest \in SortedLimit(collection, matched \ {i}, n - 1) } :
                 i \in { j \in matched :
                           \A k \in matched :
                             collection[k].rugPullDate <= collection[j].rugPullDate } }

\* A getSimilarCases that leaves the queried tombstone among the cases.
GetSimilarCasesWithSelf(collection, tombstoneId) ==
  LET tombstone == FindTombstone(collection, tombstoneId) IN
  IF tombstone = Null
  THEN { [error |-> "Tombstone not found", cases |-> << >>] }
  ELSE { [error |-> "", cases |-> cases] :
           cases \in SortedLimit(collection,
                                 SimilarFilter(collection, 0, tombstone), SimilarLimit) }

\* RugCoinService.getSimilarCases: what it may return, or the error it throws.
GetSimilarCases(collection, tombstoneId) ==
  LET tombstone == FindTombstone(collection, tombstoneId) IN
  IF tombstone = Null
  THEN { [error |-> "Tombstone not found", cases |-> << >>] }
  ELSE { [error |-> "", cases |-> cases] :
           cases \in SortedLimit(collection,
                                 SimilarFilter(collection, tombstoneId, tombstone),
                                 SimilarLimit) }

GetSimilarCasesCall ==
  \E result \in GetSimilarCases(call.args[1], call.args[2]) :
    Returned("getSimilarCases", result)

\* --------------------------------------------------------------- Encryption
\* Bytes are tokens: the n-th random salt or iv, the ciphertext and the
\* authentication tag of a plaintext under a key and an iv.  A hex string is
\* the sequence of its tokens; NonHex is a character that is no hex digit.
SaltBytes(n) == <<[kind |-> "salt", body |-> <<n>>]>>
IvBytes(n) == <<[kind |-> "iv", body |-> <<n>>]>>
NonHex == [kind |-> "nonhex", body |-> << >>]

\* buffer.toString('hex')
ToHex(bytes) == bytes

\* Buffer.from(string, 'hex'): the bytes up to the first character that is
\* not a hex digit.
RECURSIVE FromHex(_)
FromHex(string) ==
  IF string = << >> \/ string[1].kind = "nonhex" THEN << >>
  ELSE <<string[1]>> \o FromHex(Tail(string))

\* Encryption.generateKey: PBKDF2 of the password and the salt.
GenerateKey(password, salt) == [password |-> password, salt |-> salt]

\* aes-256-gcm: the ciphertext and the tag of data under key and iv.
CipherBytes(key, iv, data) == <<[kind |-> "ciphertext", body |-> <<key, iv, data>>]>>
TagBytes(key, iv, data) == <<[kind |-> "tag", body |-> <<key, iv, data>>]>>

\* JSON.stringify(value), and a string that is not JSON.
Json(value) == [json |-> value]
NotJson(text) == [text |-> text]

\* Encryption.encrypt with the salt and the iv that randomBytes returned.
Encrypt(data, password, salt, iv) ==
  LET key == GenerateKey(password, salt)
  IN Json([ encrypted |-> ToHex(CipherBytes(key, iv, data)),
            iv |-> ToHex(iv),
            salt |-> ToHex(salt),
            tag |-> ToHex(TagBytes(key, iv, data)) ])

\* What a call returns, or the error it throws.
Value(v) == [error |-> "", value |-> v]
Thrown(e) == [error |-> e, value |-> ""]

\* decipher.update and decipher.final: the plaintext that ciphertext and tag
\* authenticate under key and iv, when there is one.
Plaintexts(key, iv, ciphertext, tag, texts) ==
  { data \in texts : ciphertext = CipherBytes(key, iv, data) /\ tag = TagBytes(key, iv, data) }

\* Encryption.decrypt; texts are the plaintexts there are.
Decrypt(encryptedData, password, texts) ==
  IF "json" \notin DOMAIN encryptedData THEN Thrown("SyntaxError")
  ELSE LET parsed == encryptedData.json IN
       IF {"iv", "salt", "tag"} \ DOMAIN parsed # {} THEN Thrown("TypeError")
       ELSE LET ivBuffer == FromHex(parsed.iv)
                saltBuffer == FromHex(parsed.salt)
                tagBuffer == FromHex(parsed.tag)
                key == GenerateKey(password, saltBuffer)
            IN IF ivBuffer = << >> THEN Thrown("Invalid initialization vector")
               ELSE IF tagBuffer = << >> THEN Thrown("Invalid authentication tag length")
               ELSE IF "encrypted" \notin DOMAIN parsed THEN Thrown("TypeError")
               ELSE LET plain == Plaintexts(key, ivBuffer, parsed.encrypted, tagBuffer, texts)
                    IN IF plain = {} THEN Thrown("unable to authenticate data")
                       ELSE Value(CHOOSE data \in plain : TRUE)

\* Data is a string, an object or undefined; text names the characters of a
\* string and of the JSON of an object.
StringData(text) == [type |-> "string", text |-> text]
ObjectData(text) == [type |-> "object", text |-> text]
UndefinedData == [type |-> "undefined", text |-> 0]

\* createHash('sha256').update(content).digest('hex'): DigestLength hex
\* characters, different for different content.
Sha256Hex(text) == [i \in 1..DigestLength |-> text]

\* Encryption.generateHash: the digest of a string or of the JSON of anything
\* else; JSON.stringify(undefined) is undefined and update throws.
GenerateHash(data) ==
  IF data.type = "string" THEN Value(Sha256Hex(data.text))
  ELSE IF data.type = "object" THEN Value(Sha256Hex(data.text))
  ELSE Thrown("TypeError")

\* crypto.timingSafeEqual(Buffer.from(a), Buffer.from(b))
TimingSafeEqual(a, b) ==
  IF b.type # "string" THEN Thrown("TypeError")
  ELSE IF Len(a) # Len(b.text) THEN Thrown("RangeError")
  ELSE Value(a = b.text)

\* A verifyHash without the catch.
VerifyHashUncaught(data, hash) ==
  LET generatedHash == GenerateHash(data)
  IN IF generatedHash.error # "" THEN generatedHash
     ELSE TimingSafeEqual(generatedHash.value, hash)

\* Encryption.verifyHash
VerifyHash(data, hash) ==
  LET generatedHash == GenerateHash(data)
      equal == IF generatedHash.error # "" THEN generatedHash
               ELSE TimingSafeEqual(generatedHash.value, hash)
  IN IF equal.error # "" THEN Value(FALSE) ELSE equal

\* ------------------------------------------------------ insider submissions
CredibilityOutputs == {40, 90}
VerificationInputs == {"Verified", "Rejected", "Pending"}

\* InsiderService.submitInformation.  outcome names the call that failed
\* before the save.
SubmitInformation(outcome, credibilityScore) ==
  /\ \E i \in SubmissionIds : submissions[i] = Null
  /\ LET i == CHOOSE k \in SubmissionIds :
                 submissions[k] = Null /\ \A j \in 1..(k - 1) : submissions[j] # Null
     IN IF outcome # "ok"
        THEN /\ ChatDone("submitInformation", 0, outcome, << >>)
             /\ UNCHANGED submissions
        ELSE /\ submissions' = [submissions EXCEPT ![i] =
                                   [ verificationStatus |-> "Pending",
                                     credibilityScore |-> credibilityScore,
                                     reports |-> << >> ]]
             /\ ChatDone("submitInformation", i, "ok", << >>)
  /\ UNCHANGED <<subscriptions, messages>>

\* The enum of verificationStatus in the InsiderInformation schema.
VerificationStatuses == {"Pending", "Verified", "Rejected"}

\* calculateVerifiedCredibility that takes every verdict but Rejected for Verified.
CalculateVerifiedCredibilityAnyVerdict(submission, verificationStatus) ==
  IF verificationStatus = "Rejected"
  THEN Max(submission.credibilityScore - RejectedPenalty, 0)
  ELSE Min(submission.credibilityScore + VerifiedBonus, MaxRiskScore)

\* InsiderService.calculateVerifiedCredibility
CalculateVerifiedCredibility(submission, verificationStatus) ==
  CASE verificationStatus = "Verified" ->
         Min(submission.credibilityScore + VerifiedBonus, MaxRiskScore)
    [] verificationStatus = "Rejected" ->
         Max(submission.credibilityScore - RejectedPenalty, 0)
    [] OTHER -> submission.credibilityScore

\* InsiderService.verifyInformation, called without a note: the status, then
\* the credibility score, each saved by the document method that sets it.
\* The save of updateVerificationStatus rejects a status outside the enum, and
\* the call ends there.
VerifyInformation(submissionId, status, moderatorId) ==
  /\ IF submissions[submissionId] = Null
     THEN /\ ChatDone("verifyInformation", submissionId, "Submission not found", << >>)
          /\ UNCHANGED submissions
     ELSE IF status \notin VerificationStatuses
     THEN /\ ChatDone("verifyInformation", submissionId, "ValidationError", << >>)
          /\ UNCHANGED submissions
     ELSE /\ submissions' = [submissions EXCEPT ![submissionId] =
               [@ EXCEPT !.verificationStatus = status,
                         !.credibilityScore =
                            Min(Max(CalculateVerifiedCredibility(
                                      submissions[submissionId], status), 0),
                                MaxRiskScore)]]
          /\ ChatDone("verifyInformation", submissionId, "ok", << >>)
  /\ UNCHANGED <<subscriptions, messages>>

\* InsiderService.reportSubmission
ReportSubmission(submissionId, userId, reason) ==
  /\ IF submissions[submissionId] = Null
     THEN /\ ChatDone("reportSubmission", submissionId, "Submission not found", << >>)
          /\ UNCHANGED submissions
     ELSE /\ LET reports == Append(submissions[submissionId].reports,
                                    [userId |-> userId, reason |-> reason])
             IN submissions' = [submissions EXCEPT ![submissionId] =
                  [@ EXCEPT !.reports = reports,
                            !.verificationStatus =
                               IF Len(reports) >= ReportThreshold THEN "Pending" ELSE @]]
          /\ ChatDone("reportSubmission", submissionId, "ok", << >>)
  /\ UNCHANGED <<subscriptions, messages>>

\* ------------------------------------------------------------ subscriptions
\* The trigger name a Subscription resolver hands to pubsub.asyncIterator.
SubscriptionTopic(field, arg) ==
  CASE field = "warningSignCreated" -> EVENTS.WARNING_SIGN_CREATED
    [] field = "warningSignUpdated" -> EVENTS.WARNING_SIGN_UPDATED
    [] field = "chatMessageSent" -> EVENTS.CHAT_MESSAGE_SENT \o "." \o arg
    [] field = "chatMessageUpdated" -> EVENTS.CHAT_MESSAGE_UPDATED \o "." \o arg

\* A client subscribes: field is the Subscription field, arg its argument (the
\* warning id or the roomId of the schema).
Subscribe(client, field, arg) ==
  /\ subscriptions' = subscriptions \cup
       { [client |-> client, field |-> field, arg |-> arg,
          topic |-> SubscriptionTopic(field, arg)] }
  /\ subscriptions' # subscriptions
  /\ ChatDone("subscribe", 0, "ok", << >>)
  /\ UNCHANGED <<messages, submissions>>

\* ---------------------------------------------------------- specification
WarningSignInputs == [riskLevel : RiskLevelInputs, evidence : EvidenceInputs]
ServiceCreateInputs ==
  { [evidence |-> e, requiresMonitoring |-> m] :
      e \in ServiceEvidenceInputs, m \in BOOLEAN }
ServiceUpdateInputs ==
  { [evidence |-> e] : e \in EvidenceInputs }
    \cup { [riskLevel |-> "Critical"], [status |-> "Resolved"] }
ContractRisks ==
  { [isContract |-> TRUE, hasCode |-> TRUE, codeSize |-> 2, risks |-> <<"selfdestruct">>,
     timestamp |-> t] : t \in ChainTimestamps }
PoolReserves ==
  { [token0 |-> "a", token1 |-> "b", reserve0 |-> 300, reserve1 |-> 100, timestamp |-> t] :
      t \in ChainTimestamps }

\* The calls that create a warning or change its status.
LifecycleCalls(ids, callers) ==
  \/ \E u \in callers, input \in WarningSignInputs : MutationCreateWarningSign(u, input)
  \/ \E u \in callers, id \in ids, r \in Resolutions : ResolveWarningSign(u, id, r)
  \/ \E u \in callers, id \in ids, r \in Resolutions :
       MarkWarningSignAsFalseAlarm(u, id, r)
  \/ \E id \in ids : DeleteOutOfBand(id)
  \/ \E data \in ServiceCreateInputs, o \in {"ok", "ChainError", "ScorerError"},
        s \in ScoreOutputs : ServiceCreateWarningSign(data, o, s)

\* The calls that update a warning from outside; cap bounds the calls in flight.
UpdateCalls(ids, callers, cap) ==
  \/ \E u \in callers, id \in ids, input \in WarningSignInputs :
       MutationUpdateWarningSign(u, id, input)
  \/ \E id \in ids, data \in ServiceUpdateInputs :
       BagCardinality(procs) < cap /\ ServiceUpdateWarningSign(id, data)

\* The registry calls, the timers, and the steps of the calls in flight.
MonitoringSteps(ids, cap) ==
  \/ \E id \in ids : StartMonitoring(id)
  \/ \E id \in ids : StopMonitoring(id)
  \/ IntervalElapse
  \/ \E id \in ids : BagCardinality(procs) < cap /\ TimerFire(id)
  \/ \E p \in BagToSet(procs) : CheckFindById(p)
  \/ \E p \in BagToSet(procs), o \in {"ok", "ChainError"}, c \in ContractRisks :
       CheckAnalyzeContractRisks(p, o, c)
  \/ \E p \in BagToSet(procs), o \in {"ok", "ChainError"}, l \in PoolReserves :
       CheckLiquidityPool(p, o, l)
  \/ \E p \in BagToSet(procs) : UpdateFindById(p)
  \/ \E p \in BagToSet(procs), o \in {"ok", "ScorerError"}, s \in ScoreOutputs :
       UpdatePredict(p, o, s)
  \/ \E p \in BagToSet(procs) : UpdateSave(p)

Moderators == {c \in Callers : Authorize(c, "moderator") = "ok"}

\* One warning id, the callers that pass the permission check.
Next ==
  \/ LifecycleCalls({1}, Moderators)
  \/ UpdateCalls({1}, Moderators, MaxInFlight)
  \/ MonitoringSteps({1}, MaxInFlight)

\* The monitoring scheduler over every warning id: the registry, the timers and
\* the ticks, with the calls that change what a tick's status check reads (a
\* monitored warning is created, leaves Active, or is removed).
NextMonitor ==
  \/ \E data \in ServiceCreateInputs, o \in {"ok", "ChainError", "ScorerError"},
        s \in ScoreOutputs : ServiceCreateWarningSign(data, o, s)
  \/ \E id \in WarningIds, r \in Resolutions :
       ResolveWarningSign([id |-> "mod1", role |-> "moderator"], id, r)
  \/ \E id \in WarningIds : DeleteOutOfBand(id)
  \/ MonitoringSteps(WarningIds, MaxInFlight)

\* The interval of setInterval elapses; the model holds it back while
\* MaxInFlight ticks are in flight.
IntervalElapseBounded == BagCardinality(procs) < MaxInFlight /\ IntervalElapse

\* The status check of a tick of id.
TickStatusCheck(id) == \E p \in BagToSet(procs) : p.id = id /\ CheckFindById(p)

\* The later steps of a tick: the chain provider, the scorer and the store
\* answer or fail.
TickContinues ==
  \/ \E p \in BagToSet(procs), o \in {"ok", "ChainError"}, c \in ContractRisks :
       CheckAnalyzeContractRisks(p, o, c)
  \/ \E p \in BagToSet(procs), o \in {"ok", "ChainError"}, l \in PoolReserves :
       CheckLiquidityPool(p, o, l)
  \/ \E p \in BagToSet(procs) : UpdateFindById(p)
  \/ \E p \in BagToSet(procs), o \in {"ok", "ScorerError"}, s \in ScoreOutputs :
       UpdatePredict(p, o, s)
  \/ \E p \in BagToSet(procs) : UpdateSave(p)

\* The monitoring scheduler with its timers, started and stopped by the
\* callers the service has (createWarningSign and the tick): warnings are
\* created, leave Active or are removed, intervals elapse and ticks run.
NextEviction ==
  \/ \E data \in ServiceCreateInputs, o \in {"ok", "ChainError", "ScorerError"},
        s \in ScoreOutputs : ServiceCreateWarningSign(data, o, s)
  \/ \E id \in WarningIds, r \in Resolutions :
       ResolveWarningSign([id |-> "mod1", role |-> "moderator"], id, r)
  \/ \E id \in WarningIds, r \in Resolutions :
       MarkWarningSignAsFalseAlarm([id |-> "mod1", role |-> "moderator"], id, r)
  \/ \E id \in WarningIds : DeleteOutOfBand(id)
  \/ IntervalElapseBounded
  \/ \E id \in WarningIds : TimerFire(id)
  \/ \E id \in WarningIds : TickStatusCheck(id)
  \/ TickContinues

\* The event loop runs every timer whose interval has elapsed, intervals keep
\* elapsing, and the store, the chain provider and the scorer answer every
\* call.
FairTimers ==
  /\ WF_vars(IntervalElapseBounded)
  /\ \A id \in WarningIds : WF_vars(TimerFire(id))
  /\ \A id \in WarningIds : WF_vars(TickStatusCheck(id))
  /\ WF_vars(TickContinues)

\* The warning mutations of the GraphQL API, called by any caller.
NextMutations ==
  \/ \E u \in Callers, input \in WarningSignInputs : MutationCreateWarningSign(u, input)
  \/ \E u \in Callers, id \in WarningIds, input \in WarningSignInputs :
       MutationUpdateWarningSign(u, id, input)
  \/ \E u \in Callers, id \in WarningIds, r \in Resolutions : ResolveWarningSign(u, id, r)
  \/ \E u \in Callers, id \in WarningIds, r \in Resolutions :
       MarkWarningSignAsFalseAlarm(u, id, r)
  \/ Subscribe("c1", "warningSignUpdated", 1)

\* Submissions and the verdicts of a moderator on them, one call at a time.
VerdictInputs == VerificationInputs \cup {"Escalated"}

SubmittedScores == CredibilityOutputs \cup {0, 45, 62, 100}

NextVerdicts ==
  \/ \E o \in {"ok", "ScorerError"}, c \in SubmittedScores : SubmitInformation(o, c)
  \/ \E i \in SubmissionIds, st \in VerdictInputs : VerifyInformation(i, st, "mod1")

SpecVerdicts == Init /\ [][NextVerdicts]_vars

\* One warning id, one caller, calls that overlap.
NextOverlap ==
  \/ LifecycleCalls({1}, {[id |-> "mod1", role |-> "moderator"]})
  \/ UpdateCalls({1}, {[id |-> "mod1", role |-> "moderator"]}, MaxOverlap)
  \/ MonitoringSteps({1}, MaxOverlap)

\* updateRiskLevel called on a stored warning: the merge, the level and the save.
UpdateRiskLevel(id, newEvidence) ==
  /\ FindById(id) # Null
  /\ db' = [db EXCEPT ![id] = UpdateRiskLevelDoc(@, newEvidence)]
  /\ Done("updateRiskLevel", id, "ok")
  /\ UNCHANGED <<nextId, monitoringIntervals, timers, due, procs>>

\* A stored warning with any score of the schema's range and any level.
InitLevel ==
  /\ \E s \in 0..MaxRiskScore, l \in RiskLevels, e \in EvidenceInputs :
       db = [i \in WarningIds |->
               IF i = 1
               THEN NewWarningSign([riskLevel |-> l, evidence |-> e,
                                    aiAnalysis |-> [riskScore |-> s]])
               ELSE Null]
  /\ nextId = 2
  /\ monitoringIntervals = {}
  /\ timers = [i \in WarningIds |-> 0]
  /\ due = [i \in WarningIds |-> 0]
  /\ procs = EmptyBag
  /\ last = [op |-> "init", id |-> 0, res |-> "ok"]
  /\ published = << >>
  /\ subscriptions = {}
  /\ delivered = {}
  /\ messages = [m \in MessageIds |-> Null]
  /\ submissions = [i \in SubmissionIds |-> Null]
  /\ InitWs
  /\ call = NoCall

\* The partial evidence updateRiskLevel is called with: one, two or no
\* sub-records, fields the stored evidence has and fields it has not.
LevelEvidenceInputs ==
  EvidenceInputs \cup ServiceEvidenceInputs \cup
    { [marketData |-> [priceChange |-> 9]],
      [onChainData |-> [pairAddress |-> "0xother", blockNumber |-> 3],
       socialData |-> [volume |-> 2]],
      EmptyRec }

NextLevel ==
  \E e \in LevelEvidenceInputs : UpdateRiskLevel(1, e)

\* The chat mutations and the subscriptions of one client to the chat fields.
ChatCalls(senders, reactors, flaggers, moderators, roomIds) ==
  \/ \E u \in senders, r \in roomIds : SendChatMessage(u, [roomId |-> r])
  \/ \E u \in reactors, m \in MessageIds, t \in ReactionInputs :
       ReactToChatMessage(u, m, t)
  \/ \E u \in flaggers, m \in MessageIds : FlagChatMessage(u, m, "spam")
  \/ \E u \in moderators, m \in MessageIds, st \in ModerationInputs :
       ModerateChatMessage(u, m, st, "reviewed")

NextChat ==
  \/ ChatCalls({NoUser, ChatUser(1)}, {ChatUser(1)}, Flaggers,
               {ChatUser(1), [id |-> "mod1", role |-> "moderator"]}, Rooms)
  \/ \E field \in {"chatMessageSent", "chatMessageUpdated"}, r \in Rooms :
       Subscribe("c1", field, r)

\* Flags on a chat message and reports on an insider submission, with the
\* moderator decisions on both.
\* The users that react.  As many users flag as the threshold of flagMessage
\* takes; every user flags as spam, the first also as scam.
Reactors == {NoUser, ChatUser(1), ChatUser(2), ChatUser(3)}
FlagReasons == {"spam", "scam"}
FlagInputs ==
  { [user |-> u, reason |-> "spam"] :
      u \in {ChatUser(n) : n \in 1..FlagThreshold} \cup {NoUser} }
    \cup { [user |-> ChatUser(1), reason |-> "scam"] }

\* Reactions on chat messages.
NextReactions ==
  \/ \E r \in Rooms : SendChatMessage(ChatUser(1), [roomId |-> r])
  \/ \E u \in Reactors, m \in MessageIds, t \in ReactionInputs :
       ReactToChatMessage(u, m, t)

\* Flags on chat messages.
NextFlagging ==
  \/ SendChatMessage(ChatUser(1), [roomId |-> "r1"])
  \/ \E f \in FlagInputs, m \in MessageIds : FlagChatMessage(f.user, m, f.reason)

NextFlags ==
  \/ SendChatMessage(ChatUser(1), [roomId |-> "r1"])
  \/ \E u \in Flaggers, m \in MessageIds : FlagChatMessage(u, m, "spam")
  \/ \E m \in MessageIds, st \in ModerationInputs :
       ModerateChatMessage([id |-> "mod1", role |-> "moderator"], m, st, "reviewed")
  \/ \E o \in {"ok", "ScorerError"}, c \in CredibilityOutputs : SubmitInformation(o, c)
  \/ \E i \in SubmissionIds, st \in VerificationInputs :
       VerifyInformation(i, st, "mod1")
  \/ \E i \in SubmissionIds :
       /\ submissions[i] # Null => Len(submissions[i].reports) < MaxReports
       /\ ReportSubmission(i, ChatUser(1).id, "fake")

\* Stored warnings for every id, and one client that subscribes to the warning
\* fields while moderators update, resolve and dismiss the warnings.
InitEvents ==
  /\ db = [i \in WarningIds |->
             NewWarningSign([riskLevel |-> "High", evidence |-> EmptyRec,
                             aiAnalysis |-> [riskScore |-> 0]])]
  /\ nextId = MaxWarnings + 1
  /\ monitoringIntervals = {}
  /\ timers = [i \in WarningIds |-> 0]
  /\ due = [i \in WarningIds |-> 0]
  /\ procs = EmptyBag
  /\ last = [op |-> "init", id |-> 0, res |-> "ok"]
  /\ published = << >>
  /\ subscriptions = {}
  /\ delivered = {}
  /\ messages = [m \in MessageIds |-> Null]
  /\ submissions = [i \in SubmissionIds |-> Null]
  /\ InitWs
  /\ call = NoCall

NextEvents ==
  \/ \E id \in WarningIds, input \in WarningSignInputs :
       MutationUpdateWarningSign([id |-> "mod1", role |-> "moderator"], id, input)
  \/ \E id \in WarningIds, r \in Resolutions :
       ResolveWarningSign([id |-> "mod1", role |-> "moderator"], id, r)
  \/ \E id \in WarningIds, r \in Resolutions :
       MarkWarningSignAsFalseAlarm([id |-> "mod1", role |-> "moderator"], id, r)
  \/ \E id \in WarningIds : Subscribe("c1", "warningSignUpdated", id)

\* The data updateWarningSign is called with while notifications are sent:
\* any object, the notification log among its keys or not.
NotifyUpdateInputs ==
  ServiceUpdateInputs \cup { [notificationsSent |-> << >>] }

\* Notifications for one warning, with the calls that create, update and
\* resolve it and its monitoring ticks.
NextNotify ==
  \/ \E data \in ServiceCreateInputs, s \in ScoreOutputs :
       ServiceCreateWarningSign(data, "ok", s)
  \/ \E id \in {1}, r \in RecipientInputs :
       /\ FindById(id) # Null => Len(FindById(id).notificationsSent) < MaxNotifications
       /\ SendNotifications(id, r)
  \/ \E id \in {1}, data \in NotifyUpdateInputs :
       BagCardinality(procs) < MaxInFlight /\ ServiceUpdateWarningSign(id, data)
  \/ \E r \in Resolutions :
       ResolveWarningSign([id |-> "mod1", role |-> "moderator"], 1, r)
  \/ MonitoringSteps({1}, MaxInFlight)

\* The chat server: connections join and leave rooms and send chat messages;
\* a message is accepted while the store has room for every call in flight.
NextWs ==
  \/ \E ws \in Conns, r \in Rooms :
       Cardinality(handlers) < MaxInFlight /\ HandleJoinRoom(ws, r, UserIds[ws])
  \/ \E h \in handlers, o \in {"ok", "DbError"} : JoinHistory(h, o)
  \/ \E ws \in Conns, r \in Rooms : HandleLeaveRoom(ws, r)
  \/ \E ws \in Conns :
       /\ Cardinality(handlers) < MaxInFlight
       /\ ChatsInFlight < Cardinality({m \in MessageIds : messages[m] = Null})
       /\ HandleChatMessage(ws)
  \/ \E h \in handlers, o \in {"ok", "ScanError"}, a \in AnalysisOutputs :
       ChatAnalyze(h, o, a)
  \/ \E h \in handlers, o \in {"ok", "DbError"} : ChatSave(h, o)

\* calculateMessageCredibility called with any message and keyword count.
InitCredibility ==
  /\ InitState
  /\ call \in { Called("calculateMessageCredibility", <<m, Indicators(k)>>) :
                  m \in MessageInputs, k \in 0..MaxKeywords }

NextCredibility == CalculateMessageCredibilityCall

\* calculateLiquidityChange called with stored market data that has both, one
\* or none of the reserves (or is missing), and with fetched pool data.
ReserveInputs == {0, 100, 300}
OldDataInputs ==
  { Null, EmptyRec, [priceChange |-> 5] }
    \cup { [reserve0 |-> a] : a \in ReserveInputs }
    \cup { [reserve1 |-> b] : b \in ReserveInputs }
    \cup { [reserve0 |-> a, reserve1 |-> b] : a \in ReserveInputs, b \in ReserveInputs }
NewDataInputs ==
  { Null } \cup PoolReserves
    \cup { [reserve0 |-> a, reserve1 |-> b] : a \in ReserveInputs, b \in ReserveInputs }

InitLiquidity ==
  /\ InitState
  /\ call \in { Called("calculateLiquidityChange", <<oldData, newData>>) :
                  oldData \in OldDataInputs, newData \in NewDataInputs }

NextLiquidity == CalculateLiquidityChangeCall

SpecLiquidity == InitLiquidity /\ [][NextLiquidity]_vars

\* The kinds of tombstone of a collection: one that is verified and shares
\* network and a tactic with the others of its kind, one on another network,
\* one with other tactics, one that is not verified.
TombstoneKinds == {"same", "network", "tactics", "pending"}

\* Tombstone i of a kind.  The dates repeat and are not in the order of the
\* ids; two tombstones of kind same share one tactic or both.
TombstoneInput(i, kind) ==
  [ blockchainNetwork |-> IF kind = "network" THEN "BSC" ELSE "Ethereum",
    fraudTactics |-> IF kind = "tactics" THEN {"t4"}
                     ELSE IF i % 2 = 1 THEN {"t1", "t2"} ELSE {"t2", "t3"},
    verificationStatus |-> IF kind = "pending" THEN "Pending" ELSE "Verified",
    rugPullDate |-> (3 * i) % 4 ]

CollectionInputs ==
  { [i \in TombstoneIds |-> TombstoneInput(i, kinds[i])] :
      kinds \in [TombstoneIds -> TombstoneKinds] }

\* getSimilarCases called on a collection, with the id of the first or the
\* last tombstone or an id that no tombstone has.
InitSimilar ==
  /\ InitState
  /\ call \in { Called("getSimilarCases", <<c, id>>) :
                  c \in CollectionInputs, id \in {1, MaxTombstones, MaxTombstones + 1} }

NextSimilar == GetSimilarCasesCall

SpecSimilar == InitSimilar /\ [][NextSimilar]_vars

\* The plaintexts, the passwords and the random values of the encryption.
DataInputs == {"", "Hello, World!", "0xabc"}
PasswordInputs == {"test-password-123", "other"}
RandomInputs == {1, 2}

\* An encrypted record with one field changed: left out, emptied, followed by
\* a character that is not hex, or taken from another record.
Tampered(record) ==
  { Json([k \in (DOMAIN record.json) \ {f} |-> record.json[k]]) :
      f \in DOMAIN record.json }
    \cup { Json([record.json EXCEPT ![f] = << >>]) : f \in {"iv", "salt", "tag"} }
    \cup { Json([record.json EXCEPT ![f] = @ \o <<NonHex>>]) : f \in {"iv", "salt", "tag"} }
    \cup { Json([record.json EXCEPT ![f] = <<NonHex>> \o @]) : f \in {"iv", "salt", "tag"} }
    \cup { Json([record.json EXCEPT !.tag = ToHex(TagBytes(GenerateKey("other", SaltBytes(1)),
                                                          IvBytes(1), "0xabc"))]) }

EncryptedInputs ==
  { Encrypt(data, password, SaltBytes(salt), IvBytes(iv)) :
      data \in DataInputs, password \in PasswordInputs,
      salt \in RandomInputs, iv \in RandomInputs }

DecryptInputs ==
  { NotJson("invalid-data"), Json(EmptyRec) }
    \cup UNION { Tampered(record) : record \in EncryptedInputs }

\* encrypt called with any data and password, decrypt with any input that
\* encrypt did not return.
InitEncryption ==
  /\ InitState
  /\ call \in { Called("encrypt", <<data, password>>) :
                  data \in DataInputs, password \in PasswordInputs }
              \cup { Called("decrypt", <<input, password>>) :
                       input \in DecryptInputs, password \in PasswordInputs }

\* encrypt returns
EncryptCall(salt, iv) ==
  Returned("encrypt", Value(Encrypt(call.args[1], call.args[2], SaltBytes(salt), IvBytes(iv))))

\* decrypt is called with what encrypt returned
DecryptEncrypted(password) ==
  /\ call.fn = "encrypt" /\ call.returned
  /\ call' = Called("decrypt", <<call.result.value, password>>)
  /\ last' = [op |-> "decrypt", id |-> 0, res |-> "pending"]
  /\ Publish(<< >>)
  /\ sent' = NoFrames
  /\ UNCHANGED WarningVars
  /\ UNCHANGED <<subscriptions, messages, submissions, rooms, sockets, handlers>>

\* decrypt returns or throws
DecryptCall ==
  Returned("decrypt", Decrypt(call.args[1], call.args[2], DataInputs))

NextEncryption ==
  \/ \E salt \in RandomInputs, iv \in RandomInputs : EncryptCall(salt, iv)
  \/ \E password \in PasswordInputs : DecryptEncrypted(password)
  \/ DecryptCall

SpecEncryption == InitEncryption /\ [][NextEncryption]_vars

\* The texts hashed, and the data that has them: each text as a string and as
\* the JSON of an object.
TextInputs == 1..3
HashDataInputs ==
  { StringData(text) : text \in TextInputs }
    \cup { ObjectData(text) : text \in TextInputs } \cup { UndefinedData }

\* The hashes offered: a digest, a digest cut short, extended or with its
\* last character changed, the empty string, and undefined.
HashInputs ==
  LET digests == { Sha256Hex(text) : text \in TextInputs }
  IN { StringData(chars) :
         chars \in digests
           \cup { SubSeq(d, 1, DigestLength - 1) : d \in digests }
           \cup { Append(d, 0) : d \in digests }
           \cup { [d EXCEPT ![DigestLength] = 0] : d \in digests }
           \cup { << >> } }
       \cup { UndefinedData }

InitHash ==
  /\ InitState
  /\ call \in { Called("verifyHash", <<data, hash>>) :
                  data \in HashDataInputs, hash \in HashInputs }

VerifyHashCall ==
  Returned("verifyHash", VerifyHash(call.args[1], call.args[2]))

NextHash == VerifyHashCall

SpecHash == InitHash /\ [][NextHash]_vars

\* Project data with any of the twelve feature fields, and with all of them
\* at zero.
ProjectDataInputs ==
  { [k \in keys |-> 1] : keys \in SUBSET {FeatureKeys[i] : i \in DOMAIN FeatureKeys} }
    \cup { [k \in {FeatureKeys[i] : i \in DOMAIN FeatureKeys} |-> 0] }

InitConfidence ==
  /\ InitState
  /\ call \in { Called("predictRugPullRisk", <<projectData>>) :
                  projectData \in ProjectDataInputs }

NextConfidence == \E s \in ScoreOutputs : PredictRugPullRiskCall(s)

Spec == Init /\ [][Next]_vars

SpecConfidence == InitConfidence /\ [][NextConfidence]_vars

SpecCredibility == InitCredibility /\ [][NextCredibility]_vars

SpecWs == Init /\ [][NextWs]_vars

SpecNotify == Init /\ [][NextNotify]_vars

SpecChat == Init /\ [][NextChat]_vars

SpecFlags == Init /\ [][NextFlags]_vars

SpecReactions == Init /\ [][NextReactions]_vars

SpecFlagging == Init /\ [][NextFlagging]_vars

SpecEvents == InitEvents /\ [][NextEvents]_vars

SpecLevel == InitLevel /\ [][NextLevel]_vars

SpecMonitor == Init /\ [][NextMonitor]_vars

SpecOverlap == Init /\ [][NextOverlap]_vars

SpecRooms == Init /\ [][NextRooms]_vars

SpecHealth == Init /\ [][NextHealth]_vars

SpecMutations == Init /\ [][NextMutations]_vars

SpecEviction == Init /\ [][NextEviction]_vars /\ FairTimers

\* ------------------------------------------------------------------ claims
Terminal(doc) == doc # Null /\ doc.status \in {"Resolved", "False Alarm"}

ResolveOps == {"resolveWarningSign", "markWarningSignAsFalseAlarm"}

\* C1: once a warning's status is Resolved or False Alarm, no step changes it:
\* it neither returns to Active nor moves to the other terminal state.
C1_TerminalStatusNeverChanges ==
  [][\A id \in WarningIds :
       (Terminal(db[id]) /\ db'[id] # Null) => db'[id].status = db[id].status]_vars

\* C2: resolveWarningSign and markWarningSignAsFalseAlarm succeed on an Active
\* warning; on a warning that is already Resolved or False Alarm they fail with
\* InvalidTransition and leave status and resolutionDetails as they were.
C2_SecondTransitionFails ==
  [][\A id \in WarningIds :
       (last'.op \in ResolveOps /\ last'.id = id /\ db[id] # Null)
         => IF db[id].status = "Active"
            THEN last'.res = "ok" /\ Terminal(db'[id])
            ELSE /\ last'.res = "InvalidTransition"
                 /\ db'[id].status = db[id].status
                 /\ db'[id].resolutionDetails = db[id].resolutionDetails]_vars

\* The tier of a risk score, as the specification states it.
Tier(s) ==
  CASE s >= 80 -> "Critical"
    [] s >= 60 /\ s < 80 -> "High"
    [] s >= 40 /\ s < 60 -> "Medium"
    [] s < 40 -> "Low"

\* C3: in every stored state of a warning, riskLevel is the tier of the stored
\* aiAnalysis.riskScore.
C3_RiskLevelIsTierOfScore ==
  \A id \in WarningIds :
    db[id] # Null => db[id].riskLevel = Tier(db[id].aiAnalysis.riskScore)

\* C4: for every risk score s in 0..100, the level updateRiskLevel stores is
\* Critical iff s >= 80, High iff 60 <= s < 80, Medium iff 40 <= s < 60 and
\* Low iff s < 40.
C4_UpdateRiskLevelTiers ==
  last.op = "updateRiskLevel" =>
    LET s == db[last.id].aiAnalysis.riskScore
        l == db[last.id].riskLevel
    IN /\ s \in 0..100
       /\ (l = "Critical") <=> (s >= 80)
       /\ (l = "High") <=> (60 <= s /\ s < 80)
       /\ (l = "Medium") <=> (40 <= s /\ s < 60)
       /\ (l = "Low") <=> (s < 40)

\* updateRiskLevel has stored High for the boundary score 79.
C4_Witness ==
  /\ last.op = "updateRiskLevel"
  /\ db[1].aiAnalysis.riskScore = 79
  /\ db[1].riskLevel = "High"

\* C5: resolutionDetails is set if and only if status is not Active; a Resolved
\* or False Alarm warning has resolvedAt, resolvedBy and resolution.
C5_ResolutionDetailsIffNotActive ==
  \A id \in WarningIds :
    db[id] # Null =>
      /\ (DOMAIN db[id].resolutionDetails # {}) <=> (db[id].status # "Active")
      /\ db[id].status # "Active" =>
           {"resolvedAt", "resolvedBy", "resolution"} \subseteq DOMAIN db[id].resolutionDetails

\* C6: every warning id has at most one timer and at most one tick per
\* interval, the registry holds exactly the ids that have a timer, and
\* startMonitoring on an id that has a timer changes neither.
C6_OneTimerPerWarning ==
  /\ [](\A id \in WarningIds :
          /\ timers[id] <= 1
          /\ due[id] <= 1
          /\ (id \in monitoringIntervals) <=> (timers[id] = 1))
  /\ [][\A id \in WarningIds :
          (last'.op = "startMonitoring" /\ last'.id = id /\ id \in monitoringIntervals)
            => UNCHANGED <<monitoringIntervals, timers, due>>]_vars

\* startMonitoring has returned early for an id that has its one timer.
C6_Witness ==
  /\ last.op = "startMonitoring"
  /\ last.res = "returned"
  /\ last.id \in monitoringIntervals
  /\ timers[last.id] = 1

\* C7: stopMonitoring(id) leaves id without timer and registry entry, does
\* nothing when id has none, never fails, and leaves the timer, the pending
\* tick and the registry entry of every other id as they were.
C7_StopMonitoringFrame ==
  [][\A id \in WarningIds :
       (last'.op = "stopMonitoring" /\ last'.id = id)
         => /\ last'.res \in {"Stopped monitoring", "returned"}
            /\ timers'[id] = 0 /\ due'[id] = 0 /\ id \notin monitoringIntervals'
            /\ id \notin monitoringIntervals => UNCHANGED <<monitoringIntervals, timers, due>>
            /\ \A other \in WarningIds \ {id} :
                 /\ timers'[other] = timers[other]
                 /\ due'[other] = due[other]
                 /\ (other \in monitoringIntervals') <=> (other \in monitoringIntervals)
            /\ UNCHANGED <<db, procs>>]_vars

\* stopMonitoring has removed the timer of one id while another id keeps its
\* timer and its pending tick.
C7_Witness ==
  /\ last.op = "stopMonitoring"
  /\ last.res = "Stopped monitoring"
  /\ \E other \in WarningIds \ {last.id} :
       other \in monitoringIntervals /\ timers[other] = 1 /\ due[other] = 1

\* C8: a tick whose findById finds no warning, or one that is not Active,
\* removes the warning's timer from the registry, ends without a chain
\* provider call, and does not change the store.
C8_TickRetiresInactiveWarning ==
  [][\A p \in BagToSet(procs) :
       ( /\ p.kind = "tick" /\ p.pc = "findById"
         /\ CopiesIn(p, procs') < CopiesIn(p, procs)
         /\ (db[p.id] = Null \/ db[p.id].status # "Active") )
       => /\ p.id \notin monitoringIntervals'
          /\ timers'[p.id] = 0 /\ due'[p.id] = 0
          /\ procs' = procs (-) SetToBag({p})
          /\ db' = db]_vars

\* A tick has retired the timer of a warning that was created and then
\* deleted out-of-band.
C8_Witness ==
  /\ last.op = "tick" /\ last.res = "retired"
  /\ db[last.id] = Null /\ nextId > last.id
  /\ last.id \notin monitoringIntervals

\* C9: no two ticks of the same warning are in flight at the same time.
C9_NoOverlappingTicks ==
  \A id \in WarningIds : TicksInFlight(id) <= 1

\* The fields of a sub-record that a tick fetches itself.
TickFetched(c) ==
  CASE c = "onChainData" -> {"isContract", "hasCode", "codeSize", "risks", "timestamp"}
    [] c = "marketData" -> {"liquidityChange"}
    [] OTHER -> {}

\* C10: no evidence is lost when a tick and an update from outside overlap: in
\* the sub-records a tick hands back (onChainData, marketData), the save of the
\* tick leaves every stored field that the tick did not fetch itself at the
\* value it has in the store.
C10_TickSaveLosesNoEvidence ==
  [][\A p \in BagToSet(procs) :
       ( /\ p.kind = "tick" /\ p.pc = "save"
         /\ CopiesIn(p, procs') < CopiesIn(p, procs)
         /\ db[p.id] # Null )
       => \A c \in {"onChainData", "marketData"} :
            \A f \in (DOMAIN db[p.id].evidence[c]) \ TickFetched(c) :
              /\ f \in DOMAIN db'[p.id].evidence[c]
              /\ db'[p.id].evidence[c][f] = db[p.id].evidence[c][f]]_vars

\* The errors of the chain provider and of the scorer.
ProviderErrors == {"ChainError", "ScorerError"}

\* C11: a tick that ends with a chain-provider or scorer failure changes
\* neither the store nor the registry nor the timers, and after it the timer
\* of a monitored warning can still elapse and fire the next tick.
C11_TickFailureKeepsMonitoring ==
  /\ [][\A p \in BagToSet(procs) :
          ( /\ p.kind = "tick"
            /\ CopiesIn(p, procs') < CopiesIn(p, procs)
            /\ last'.res \in ProviderErrors )
          => /\ UNCHANGED <<db, monitoringIntervals, timers, due>>
             /\ procs' = procs (-) SetToBag({p})]_vars
  /\ [](( /\ last.op = "tick" /\ last.res \in ProviderErrors
           /\ last.id \in monitoringIntervals )
          => ENABLED (IntervalElapse \/ TimerFire(last.id)))

\* A tick of an Active, monitored warning has failed in the chain provider and
\* the warning keeps its timer.
C11_Witness ==
  /\ last.op = "tick" /\ last.res = "ChainError"
  /\ db[last.id] # Null /\ db[last.id].status = "Active"
  /\ last.id \in monitoringIntervals /\ timers[last.id] = 1

\* C12: an evidence update merges field by field: no step removes an evidence
\* field that a stored warning has, and a save of updateWarningSign leaves every
\* field that its evidence argument does not name at its stored value.
C12_EvidenceUpdateMerges ==
  [][\A id \in WarningIds :
       (db[id] # Null /\ db'[id] # Null) =>
         \A c \in Categories : \A f \in DOMAIN db[id].evidence[c] :
           /\ f \in DOMAIN db'[id].evidence[c]
           /\ \A p \in BagToSet(procs) :
                ( /\ p.id = id /\ p.pc = "save" /\ "evidence" \in DOMAIN p.data
                  /\ CopiesIn(p, procs') < CopiesIn(p, procs)
                  /\ (c \notin DOMAIN p.data.evidence \/ f \notin DOMAIN p.data.evidence[c]) )
                => db'[id].evidence[c][f] = db[id].evidence[c][f]]_vars

\* C13: the evidence merge of updateRiskLevel is idempotent: the partial update
\* that a step has just applied, applied again, changes neither the evidence nor
\* the riskLevel nor any other field of the stored warning.
C13_EvidenceMergeIdempotent ==
  [][\A e \in LevelEvidenceInputs :
       (last'.op = "updateRiskLevel" /\ db'[1] = UpdateRiskLevelDoc(db[1], e))
         => UpdateRiskLevelDoc(db'[1], e) = db'[1]]_vars

\* updateRiskLevel has merged a partial marketData update into evidence that
\* holds other fields.
C13_Witness ==
  /\ last.op = "updateRiskLevel"
  /\ db[1].evidence.marketData.priceChange = 9
  /\ db[1].evidence.socialData = [sentiment |-> 1]
  /\ db[1].evidence.onChainData = [pairAddress |-> "0xpair"]

\* The chat events a subscription of a room asks for.
WantedBy(sub, e) ==
  /\ \/ sub.field = "chatMessageSent" /\ e.topic = EVENTS.CHAT_MESSAGE_SENT
     \/ sub.field = "chatMessageUpdated" /\ e.topic = EVENTS.CHAT_MESSAGE_UPDATED
  /\ e.payload.roomId = sub.arg

\* C14: a chat event that a mutation publishes is delivered to a subscription
\* made before it exactly when the subscription is to the event's kind
\* (chatMessageSent or chatMessageUpdated) and to the room of the message.
C14_RoomSubscribersReceiveRoomEvents ==
  [][\A i \in DOMAIN published' : \A sub \in subscriptions :
       ([subscription |-> sub, event |-> published'[i]] \in delivered')
         <=> WantedBy(sub, published'[i])]_vars

\* C15: an update event delivered to a warningSignUpdated subscription carries
\* the warning whose id the subscription was made with.
C15_UpdatedDeliveredOnlyForSubscribedId ==
  \A d \in delivered :
    d.subscription.field = "warningSignUpdated"
      => d.event.payload.warningSignUpdated = d.subscription.arg

\* The warning-updated events for id among the events a step published.
UpdatedEvents(events, id) ==
  { i \in DOMAIN events :
      /\ events[i].topic = EVENTS.WARNING_SIGN_UPDATED
      /\ events[i].payload.warningSignUpdated = id }

\* C16: every step that changes the stored evidence, score, level or status of
\* a warning publishes exactly one warning-updated event for that warning.
C16_EveryMutationEmitsUpdated ==
  [][\A id \in WarningIds :
       (db[id] # Null /\ db'[id] # Null /\ db'[id] # db[id])
         => Cardinality(UpdatedEvents(published', id)) = 1]_vars

\* C17: a flag on a chat message that already has 5 flags, and a report on an
\* insider submission that already has 5 reports, force no state: the
\* visibility and moderation status of the message, and the verificationStatus
\* of the submission, stay as the moderator left them.
C17_EscalationOnlyAtCrossing ==
  [][/\ \A m \in MessageIds :
          ( /\ last'.op = "flagChatMessage" /\ last'.res = "ok" /\ last'.id = m
            /\ messages[m] # Null
            /\ Cardinality(messages[m].reactions.flags) >= 5 )
          => /\ messages'[m].visibility = messages[m].visibility
             /\ messages'[m].moderationStatus = messages[m].moderationStatus
     /\ \A i \in SubmissionIds :
          ( /\ last'.op = "reportSubmission" /\ last'.res = "ok" /\ last'.id = i
            /\ submissions[i] # Null
            /\ Len(submissions[i].reports) >= 5 )
          => submissions'[i].verificationStatus = submissions[i].verificationStatus]_vars

\* C18: resolveWarningSign, markWarningSignAsFalseAlarm and updateWarningSign
\* (the mutation, and the service call once its findById has answered) on an id
\* that matches no warning, by a caller who may make the call, fail with
\* NotFound, change no stored warning and publish nothing.
C18_UnknownIdFailsNotFound ==
  [][\A id \in WarningIds :
       ( /\ db[id] = Null /\ last'.id = id
         /\ \/ /\ last'.op \in ResolveOps \cup {"Mutation.updateWarningSign"}
               /\ last'.res \notin {"AuthenticationError", "ForbiddenError"}
            \/ \E p \in BagToSet(procs) :
                 /\ p.kind = "update" /\ p.id = id /\ p.pc = "update.findById"
                 /\ CopiesIn(p, procs') < CopiesIn(p, procs) )
       => /\ last'.res = "NotFound"
          /\ db' = db
          /\ published' = << >>]_vars

\* C19: after a createWarningSign or updateWarningSign mutation the stored
\* riskLevel of the warning is the tier of its stored risk score, whatever
\* riskLevel the client put in the input.
C19_RiskLevelNotFromClient ==
  [][\A id \in WarningIds :
       ( /\ last'.op \in {"createWarningSign", "Mutation.updateWarningSign"}
         /\ last'.res = "ok" /\ last'.id = id )
       => db'[id].riskLevel = Tier(db'[id].aiAnalysis.riskScore)]_vars

\* C20: a WarningService.createWarningSign that fails in the chain provider or
\* the scorer ends with that error, persists no warning and starts no timer;
\* one that succeeds persists the new warning as Active, and when
\* requiresMonitoring is set the new warning has exactly one timer afterwards.
C20_ServiceCreateAllOrNothing ==
  [][last'.op = "WarningService.createWarningSign" =>
       IF last'.res # "ok"
       THEN /\ last'.res \in ProviderErrors
            /\ UNCHANGED <<db, nextId, monitoringIntervals, timers, due>>
       ELSE /\ db[last'.id] = Null
            /\ db'[last'.id] # Null /\ db'[last'.id].status = "Active"
            /\ \A data \in ServiceCreateInputs, score \in ScoreOutputs :
                 (ServiceCreateWarningSign(data, "ok", score) /\ data.requiresMonitoring)
                   => /\ timers'[last'.id] = 1
                      /\ last'.id \in monitoringIntervals']_vars

\* createWarningSign has succeeded with requiresMonitoring set: the new warning
\* is stored and has its one timer.
C20_Witness ==
  /\ last.op = "WarningService.createWarningSign" /\ last.res = "ok"
  /\ db[last.id] # Null
  /\ last.id \in monitoringIntervals /\ timers[last.id] = 1

\* C21: notificationsSent is append-only: no step removes, reorders or alters
\* an entry a stored warning has; a sendNotifications that succeeds appends
\* exactly one entry, whose recipient count is the number of recipients it was
\* called with; for an unknown id it fails with NotFound and changes no warning.
C21_NotificationsAppendOnly ==
  [][\A id \in WarningIds :
       /\ (db[id] # Null /\ db'[id] # Null) =>
            /\ Len(db'[id].notificationsSent) >= Len(db[id].notificationsSent)
            /\ SubSeq(db'[id].notificationsSent, 1, Len(db[id].notificationsSent))
                 = db[id].notificationsSent
       /\ \A r \in RecipientInputs :
            (last'.op = "sendNotifications" /\ SendNotifications(id, r)) =>
              IF db[id] = Null
              THEN last'.res = "NotFound" /\ db' = db
              ELSE /\ last'.res = "ok"
                   /\ db'[id].notificationsSent =
                        Append(db[id].notificationsSent,
                               [type |-> "Push", timestamp |-> "now",
                                recipients |-> Len(r)])
                   /\ \A other \in WarningIds \ {id} : db'[other] = db[other]]_vars

\* C22: for a chat message from a joined connection the scan comes before the
\* save and the save before the broadcast: a chat frame is sent only by the
\* step that saves the message, and the stored message holds the result of the
\* scan.  A handler that ends with a failed scan or a failed save stores no
\* message and sends one frame: an error, to the sender.
C22_ScanSaveBroadcastOrder ==
  /\ [][\A h \in handlers :
          (h.kind = "chat" /\ h \notin handlers') =>
            IF last'.res = "ok"
            THEN /\ h.pc = "save" /\ h.analysis \in AnalysisOutputs
                 /\ messages[last'.id] = Null
                 /\ messages'[last'.id].aiAnalysis = h.analysis
                 /\ \A c \in Conns : sent'[c] \subseteq {ChatFrame(last'.id)}
            ELSE IF last'.res = "pending"
            THEN /\ h.pc = "analyzeChatMessage"
                 /\ sent' = NoFrames /\ messages' = messages
            ELSE /\ last'.res \in {"ScanError", "DbError"}
                 /\ messages' = messages
                 /\ sent' = [c \in Conns |->
                               IF c = h.ws THEN {ErrorFrame("Failed to process message")}
                               ELSE {}]]_vars
  /\ [](\A c \in Conns, m \in MessageIds :
          ChatFrame(m) \in sent[c] =>
            /\ last.op = "chat" /\ last.res = "ok" /\ last.id = m
            /\ messages[m] # Null /\ "aiAnalysis" \in DOMAIN messages[m])

\* A save has failed for a sender whose room holds another connection: the
\* sender has been sent the error frame and the other connection nothing.
C22_Witness ==
  /\ last.op = "chat" /\ last.res = "DbError"
  /\ \E c \in Conns, d \in Conns, r \in Rooms :
       /\ c # d
       /\ {c, d} \subseteq Members(r)
       /\ sent[c] = {ErrorFrame("Failed to process message")}
       /\ sent[d] = {}

\* The score of the specification: 50, +10 over 100 characters, +10 more over
\* 200, -5 per matched keyword, +15 with a URL, +20 with a contract address,
\* clamped to [0,100].
CredibilityOf(length, keywords, url, address) ==
  LET raw == 50 + (IF length > 100 THEN 10 ELSE 0) + (IF length > 200 THEN 10 ELSE 0)
                - 5 * keywords + (IF url THEN 15 ELSE 0) + (IF address THEN 20 ELSE 0)
  IN IF raw < 0 THEN 0 ELSE IF raw > 100 THEN 100 ELSE raw

\* C23: calculateMessageCredibility returns the clamped sum of the
\* specification for every message and keyword count, the result is within
\* [0,100], and a 120-character message with no keyword, URL or address
\* scores 60.
C23_MessageCredibilityFormula ==
  (call.fn = "calculateMessageCredibility" /\ call.returned) =>
    LET message == call.args[1]
        keywords == Len(call.args[2])
    IN /\ call.result = CredibilityOf(message.length, keywords, message.http, message.address)
       /\ call.result \in 0..100
       /\ (message.length = 120 /\ keywords = 0 /\ ~message.http /\ ~message.address)
            => call.result = 60

\* A message of 250 characters with a URL and an address and no keyword, whose
\* sum is 105, has been scored 100.
C23_Witness ==
  /\ call.fn = "calculateMessageCredibility" /\ call.returned
  /\ call.args[1] = [length |-> 250, http |-> TRUE, address |-> TRUE]
  /\ Len(call.args[2]) = 0
  /\ call.result = 100

\* C24: the confidence predictRugPullRisk returns is round(100*k/12), k the
\* number of the 12 feature fields the project data has; project data that
\* lacks a feature field gets a confidence below 100.
C24_ConfidenceIsFeatureCompleteness ==
  (call.fn = "predictRugPullRisk" /\ call.returned) =>
    LET projectData == call.args[1]
        k == Cardinality({i \in 1..12 : FeatureKeys[i] \in DOMAIN projectData})
    IN /\ call.result.confidence = (200 * k + 12) \div 24
       /\ k < 12 => call.result.confidence < 100

\* The sum of the reserves of pool data that has both.
ReserveSum(data) == data.reserve0 + data.reserve1
HasReserves(data) == data # Null /\ {"reserve0", "reserve1"} \subseteq DOMAIN data

\* C25: calculateLiquidityChange returns 0 when the old data is missing, has
\* no reserves, or has reserves that sum to 0; otherwise it returns
\* (newSum - oldSum) / oldSum * 100; what it returns is never NaN or infinite.
C25_LiquidityChangeDefined ==
  (call.fn = "calculateLiquidityChange" /\ call.returned) =>
    LET oldData == call.args[1]
        newData == call.args[2]
    IN /\ (~HasReserves(oldData) \/ ReserveSum(oldData) = 0) => call.result = 0
       /\ (HasReserves(oldData) /\ ReserveSum(oldData) # 0 /\ HasReserves(newData))
            => call.result =
                 ((ReserveSum(newData) - ReserveSum(oldData)) * 100) \div ReserveSum(oldData)
       /\ call.result \notin {NaN, Infinity, -Infinity}

\* C26: getSimilarCases(id) returns at most 5 tombstones, none of them the
\* queried one, each on the network of the queried tombstone, sharing a fraud
\* tactic with it and Verified, ordered by rug-pull date most recent first,
\* and no tombstone that it leaves out and that matches is more recent than
\* one it returns; for an unknown id it fails with a not-found error.
C26_SimilarCases ==
  (call.fn = "getSimilarCases" /\ call.returned) =>
    LET collection == call.args[1]
        id == call.args[2]
        cases == call.result.cases
        matches(i) ==
          /\ i # id
          /\ collection[i].blockchainNetwork = collection[id].blockchainNetwork
          /\ collection[i].fraudTactics \cap collection[id].fraudTactics # {}
          /\ collection[i].verificationStatus = "Verified"
    IN IF id \notin DOMAIN collection
       THEN call.result.error = "Tombstone not found" /\ cases = << >>
       ELSE /\ call.result.error = ""
            /\ Len(cases) <= 5
            /\ \A a \in 1..Len(cases) : matches(cases[a])
            /\ \A a \in 1..Len(cases), b \in 1..Len(cases) :
                 /\ a # b => cases[a] # cases[b]
                 /\ a < b => collection[cases[a]].rugPullDate
                               >= collection[cases[b]].rugPullDate
            /\ \A i \in DOMAIN collection :
                 (matches(i) /\ \A a \in 1..Len(cases) : cases[a] # i)
                   => /\ Len(cases) = 5
                      /\ \A a \in 1..Len(cases) :
                           collection[cases[a]].rugPullDate >= collection[i].rugPullDate

\* getSimilarCases has returned 5 cases for a tombstone that 6 others match.
C26_Witness ==
  /\ call.fn = "getSimilarCases" /\ call.returned
  /\ Len(call.result.cases) = 5
  /\ Cardinality(SimilarFilter(call.args[1], call.args[2],
                               call.args[1][call.args[2]])) = 6

\* A hex string: every character is a hex digit.
IsHex(string) == \A i \in DOMAIN string : string[i].kind # "nonhex"

\* A well-formed encrypted record: JSON of an object with the four fields, each
\* a hex string, iv, salt and tag not empty.
WellFormed(encryptedData) ==
  /\ "json" \in DOMAIN encryptedData
  /\ DOMAIN encryptedData.json = {"encrypted", "iv", "salt", "tag"}
  /\ \A f \in DOMAIN encryptedData.json : IsHex(encryptedData.json[f])
  /\ \A f \in {"iv", "salt", "tag"} : encryptedData.json[f] # << >>

\* C27: decrypt(encrypt(data, password), password) returns data, and decrypt
\* of an input that is not a well-formed encrypted record throws.
C27_EncryptionRoundTrip ==
  (call.fn = "decrypt" /\ call.returned) =>
    /\ \A data \in DataInputs, salt \in RandomInputs, iv \in RandomInputs :
         call.args[1] = Encrypt(data, call.args[2], SaltBytes(salt), IvBytes(iv))
           => call.result = [error |-> "", value |-> data]
    /\ ~WellFormed(call.args[1]) => call.result.error # ""

\* C28: verifyHash(data, h) returns true when h is generateHash(data), and
\* returns false without throwing for every other h, whatever its length.
C28_VerifyHashTotal ==
  (call.fn = "verifyHash" /\ call.returned) =>
    LET data == call.args[1]
        h == call.args[2]
        same == /\ GenerateHash(data).error = ""
                /\ h.type = "string"
                /\ h.text = GenerateHash(data).value
    IN call.result = [error |-> "", value |-> same]

\* verifyHash returned false for a string shorter than a digest.
C28_Witness ==
  /\ call.fn = "verifyHash" /\ call.returned
  /\ call.args[2].type = "string"
  /\ Len(call.args[2].text) = DigestLength - 1
  /\ call.result = [error |-> "", value |-> FALSE]

\* A warning that is missing from the store or not Active.
Inactive(id) == db[id] = Null \/ db[id].status # "Active"

\* A warning that was created and is Resolved, False Alarm or deleted.
Retired(id) == id < nextId /\ Inactive(id)

\* C29: under fair timers, a monitored warning that is Resolved, False Alarm
\* or deleted is eventually out of the monitoring registry; a tick starts only
\* for an id that is in the registry; and no tick removes the registry entry
\* of a warning that is Active.
C29_InactiveWarningEvicted ==
  /\ \A id \in WarningIds :
       (id \in monitoringIntervals /\ Retired(id)) ~> (id \notin monitoringIntervals)
  /\ [][\A id \in WarningIds :
          TicksInFlight(id)' > TicksInFlight(id) => id \in monitoringIntervals]_vars
  /\ [][\A id \in WarningIds :
          (last'.op = "tick" /\ id \in monitoringIntervals /\ id \notin monitoringIntervals')
            => Inactive(id)]_vars

\* A tick has taken a warning that was resolved out of the registry.
C29_Witness ==
  /\ last.op = "tick" /\ last.res = "retired"
  /\ db[last.id] # Null /\ db[last.id].status = "Resolved"
  /\ last.id \notin monitoringIntervals
  /\ timers[last.id] = 0

\* C30: a step of a monitoring tick leaves the evidence and the aiAnalysis of
\* a stored warning that is not Active as they are.
C30_MonitoringWritesOnlyActive ==
  [][\A id \in WarningIds :
       ( /\ last'.op = "tick" /\ last'.id = id
         /\ db[id] # Null /\ db[id].status # "Active"
         /\ db'[id] # Null )
       => /\ db'[id].evidence = db[id].evidence
          /\ db'[id].aiAnalysis = db[id].aiAnalysis]_vars

\* The warning mutations that publish after a save of their own.
SavingMutations == {"createWarningSign", "resolveWarningSign", "markWarningSignAsFalseAlarm"}

\* The status a warning has after the save of a mutation.
StatusAfter(op) ==
  CASE op = "createWarningSign" -> "Active"
    [] op = "resolveWarningSign" -> "Resolved"
    [] op = "markWarningSignAsFalseAlarm" -> "False Alarm"

\* The event a mutation publishes for warning id.
EventOf(op, id) ==
  IF op = "createWarningSign"
  THEN Event(EVENTS.WARNING_SIGN_CREATED, [warningSignCreated |-> id])
  ELSE Event(EVENTS.WARNING_SIGN_UPDATED, [warningSignUpdated |-> id])

\* C31: createWarningSign, resolveWarningSign and markWarningSignAsFalseAlarm
\* publish their event only in the step that has saved the warning, the
\* payload is the warning stored by that save, and a call that fails its
\* authorization check or its save publishes nothing and stores nothing.
C31_PublishAfterPersist ==
  [][last'.op \in SavingMutations =>
       IF last'.res = "ok"
       THEN /\ published' = <<EventOf(last'.op, last'.id)>>
            /\ db'[last'.id] # Null
            /\ db'[last'.id].status = StatusAfter(last'.op)
       ELSE /\ published' = << >>
            /\ db' = db]_vars

\* A resolveWarningSign of a moderator whose save failed published nothing.
C31_Witness ==
  /\ last.op = "resolveWarningSign" /\ last.res = "SaveError"
  /\ db[last.id] # Null /\ db[last.id].status = "Active"
  /\ published = << >>

\* C32: a connection is in the connection set of a room only if that room is
\* the connection's roomId, and a connection that is closed is in no room.
C32_MemberOnlyOfCurrentRoom ==
  \A r \in DOMAIN rooms : \A c \in rooms[r] :
    /\ sockets[c].roomId = r
    /\ sockets[c].readyState = "OPEN"

\* C33: no room of the Map has an empty connection set, and a leave or a
\* disconnection of the last connection of a room takes the room out of the
\* Map.
C33_NoEmptyRoom ==
  /\ [](\A r \in DOMAIN rooms : rooms[r] # {})
  /\ [][\A r \in DOMAIN rooms : \A ws \in Conns :
          (rooms[r] = {ws} /\ (HandleLeaveRoom(ws, r) \/ HandleDisconnection(ws)))
            => r \notin DOMAIN rooms']_vars

\* C34: handleChatMessage for a connection without roomId sends the error
\* 'Not joined to a room' to the sender and nothing else, starts no scan,
\* stores no message and leaves the Map as it is.
C34_UnjoinedChatRejected ==
  [][\A ws \in Conns :
       (HandleChatMessage(ws) /\ sockets[ws].roomId = "")
         => /\ sent' = [c \in Conns |->
                          IF c = ws THEN {ErrorFrame("Not joined to a room")} ELSE {}]
            /\ UNCHANGED <<handlers, messages, rooms, sockets>>]_vars

\* A connection without roomId has had its chat message rejected while the
\* other connection is in a room.
C34_Witness ==
  /\ last.op = "chat" /\ last.res = "Not joined to a room"
  /\ \E ws \in Conns, r \in DOMAIN rooms :
       /\ sent[ws] = {ErrorFrame("Not joined to a room")}
       /\ sockets[ws].roomId = ""
       /\ rooms[r] = Conns \ {ws}

\* C35: at a health check, an open connection that holds an unanswered ping
\* is terminated and taken out of its room, and an open connection that holds
\* none stays open.
C35_HealthCheckTerminatesSilent ==
  [][last'.op = "healthCheck" =>
       \A ws \in Conns :
         sockets[ws].readyState = "OPEN" =>
           IF sockets[ws].pinged
           THEN /\ sockets'[ws].readyState = "CLOSED"
                /\ sockets[ws].roomId \in DOMAIN rooms'
                      => ws \notin rooms'[sockets[ws].roomId]
           ELSE sockets'[ws].readyState = "OPEN"]_vars

\* A health check has terminated a connection that was in a room with
\* another connection, which answered its ping and stays.
C35_Witness ==
  /\ last.op = "healthCheck"
  /\ \E ws \in Conns, other \in Conns, r \in DOMAIN rooms :
       /\ sockets[ws].readyState = "CLOSED"
       /\ sockets[other].readyState = "OPEN"
       /\ sockets[other].roomId = r
       /\ rooms[r] = {other}
       /\ SystemFrame("User " \o UserIds[ws] \o " left the room") \in sent[other]

\* C36: no user is in likes and in dislikes of a message; an addReaction puts
\* its user into the list it names and into no other and leaves every other
\* user where it was; one with another reaction type fails and changes
\* neither list.
C36_OneReactionPerUser ==
  /\ [](\A m \in MessageIds :
          messages[m] # Null =>
            messages[m].reactions.likes \cap messages[m].reactions.dislikes = {})
  /\ [][\A u \in Reactors \ {NoUser}, m \in MessageIds, t \in ReactionInputs :
          (ReactToChatMessage(u, m, t) /\ messages[m] # Null) =>
            IF t \in {"likes", "dislikes"}
            THEN /\ \A list \in {"likes", "dislikes"} :
                      /\ (u.id \in messages'[m].reactions[list]) <=> (list = t)
                      /\ messages'[m].reactions[list] \ {u.id}
                           = messages[m].reactions[list] \ {u.id}
            ELSE /\ last'.res = "Invalid reaction type"
                 /\ messages' = messages]_vars

\* A user that liked a message has disliked it, while another user's like
\* stays.
C36_Witness ==
  /\ last.op = "reactToChatMessage" /\ last.res = "ok"
  /\ messages[last.id].reactions.dislikes = {ChatUser(1).id}
  /\ messages[last.id].reactions.likes = {ChatUser(2).id}

\* C37: a message holds at most one flag per user, and flagMessage by a user
\* that has flagged the message fails with an error and changes nothing of
\* the message.
C37_OneFlagPerUser ==
  /\ [](\A m \in MessageIds :
          messages[m] # Null =>
            Cardinality(messages[m].reactions.flags)
              = Cardinality({flag.userId : flag \in messages[m].reactions.flags}))
  /\ [][\A u \in Flaggers, m \in MessageIds, reason \in FlagReasons :
          ( /\ u.id \in {ChatUser(n).id : n \in 1..FlagThreshold}
            /\ FlagChatMessage(u, m, reason)
            /\ messages[m] # Null
            /\ \E flag \in messages[m].reactions.flags : flag.userId = u.id )
          => /\ last'.res = "Message already flagged by this user"
             /\ messages' = messages
             /\ published' = << >>]_vars

\* A second flag of a user, with another reason, has failed on a message that
\* holds the first and the flags of four other users.
C37_Witness ==
  /\ last.op = "flagChatMessage" /\ last.res = "Message already flagged by this user"
  /\ messages[last.id] # Null
  /\ [userId |-> ChatUser(1).id, reason |-> "scam"] \in messages[last.id].reactions.flags
  /\ Cardinality(messages[last.id].reactions.flags) = FlagThreshold


\* ------------------------------------------- authorization of warning mutations
\* The warning mutations that require the moderator role.
ModeratorMutation(u, id) ==
  \/ \E input \in WarningSignInputs : MutationUpdateWarningSign(u, id, input)
  \/ \E r \in Resolutions : ResolveWarningSign(u, id, r)
  \/ \E r \in Resolutions : MarkWarningSignAsFalseAlarm(u, id, r)

ModeratorMutations ==
  {"Mutation.updateWarningSign", "resolveWarningSign", "markWarningSignAsFalseAlarm"}

\* C38: updateWarningSign, resolveWarningSign and markWarningSignAsFalseAlarm
\* called without a user fail with AuthenticationError and called by a user of
\* role user fail with ForbiddenError, whether the warning exists or not, and
\* such a call changes no warning and publishes nothing; every step of these
\* mutations that changes the store or publishes is a call of a moderator or
\* an admin.
C38_ModeratorOnlyMutations ==
  [][/\ \A u \in Callers, id \in WarningIds :
          (ModeratorMutation(u, id) /\ u.role \notin {"moderator", "admin"})
          => /\ last'.res = IF u = NoUser THEN "AuthenticationError" ELSE "ForbiddenError"
             /\ db' = db
             /\ published' = << >>
     /\ (last'.op \in ModeratorMutations /\ (db' # db \/ published' # << >>))
          => \E u \in Callers, id \in WarningIds :
               /\ u.role \in {"moderator", "admin"}
               /\ ModeratorMutation(u, id)]_vars

\* A caller of role user was refused markWarningSignAsFalseAlarm on a stored,
\* active warning, and nothing was published.
C38_Witness ==
  /\ last.op = "markWarningSignAsFalseAlarm" /\ last.res = "ForbiddenError"
  /\ db[last.id] # Null /\ db[last.id].status = "Active"
  /\ published = << >>


\* ---------------------------------------------------- credibility of submissions
\* The score a verdict leaves on a submission of score score.
ScoreAfter(score, status) ==
  CASE status = "Verified" -> IF score + 30 > 100 THEN 100 ELSE score + 30
    [] status = "Rejected" -> IF score - 50 < 0 THEN 0 ELSE score - 50
    [] OTHER -> score

\* C39: the credibilityScore of every stored submission is within 0..100; a
\* verifyInformation call with Verified raises it by 30 up to 100, with
\* Rejected lowers it by 50 down to 0, with any other status leaves it as it
\* was; and a call on an unknown id fails with 'Submission not found' and
\* changes no submission.
C39_CredibilityWithinRange ==
  /\ [](\A i \in SubmissionIds :
          submissions[i] # Null => submissions[i].credibilityScore \in 0..100)
  /\ [][\A i \in SubmissionIds, st \in VerdictInputs :
          VerifyInformation(i, st, "mod1")
          => IF submissions[i] = Null
             THEN /\ last'.res = "Submission not found"
                  /\ submissions' = submissions
             ELSE /\ submissions'[i] # Null
                  /\ submissions'[i].credibilityScore =
                       ScoreAfter(submissions[i].credibilityScore, st)
                  /\ \A j \in SubmissionIds \ {i} : submissions'[j] = submissions[j]]_vars

\* A Verified verdict has left a submission at the cap of 100.
C39_Witness ==
  /\ last.op = "verifyInformation" /\ last.res = "ok"
  /\ submissions[last.id] # Null
  /\ submissions[last.id].verificationStatus = "Verified"
  /\ submissions[last.id].credibilityScore = 100

====
